---------------------------- MODULE Spec2Model ----------------------------
(***************************************************************************)
(* A model of the CopycatAI analysis pipeline,                             *)
(* ai_influencer/pipeline/copycat.py: CopycatAIPipeline.run and the stages *)
(* it drives (_ingest, lang_fix, sponsored_detector, _cluster_documents,   *)
(* evolution_tracker, _build_persona_profile).                             *)
(*                                                                         *)
(* Texts are TLA+ strings and every text function works on their           *)
(* characters, as the regular expressions and str methods of the source    *)
(* do.  Fractions are kept exact where the code compares them (integers    *)
(* cross-multiplied) and in thousandths (suffix Milli) or hundredths       *)
(* (suffix Pct) where the code computes with floats.                       *)
(***************************************************************************)
EXTENDS Integers, Sequences, FiniteSets, TLC

(***************************************************************************)
(* Characters and strings                                                  *)
(***************************************************************************)
Ch(s, i) == SubSeq(s, i, i)

CharsOf(s) == {Ch(s, i) : i \in 1..Len(s)}

LowerLetters == "abcdefghijklmnopqrstuvwxyz"

UpperLetters == "ABCDEFGHIJKLMNOPQRSTUVWXYZ"

Digits == "0123456789"

\* Letters outside ASCII that the sample texts and the glossary use.
AccentedLetters == "àèéìòù"

AsciiLetterChars == CharsOf(LowerLetters) \cup CharsOf(UpperLetters)

\* \w of Python's re on str: letters, digits and the underscore.
WordChars ==
    AsciiLetterChars \cup CharsOf(Digits) \cup CharsOf(AccentedLetters) \cup {"_"}

\* The class [\w'] of _WORD_PATTERN.
WordPatternChars == WordChars \cup {"'"}

\* The class [A-Za-z'] of the re.sub in _conservative_translate.
TranslateChars == AsciiLetterChars \cup {"'"}

\* The class [\w./%-] of _URL_PATTERN.
UrlChars == WordChars \cup {".", "/", "%", "-"}

\* \s of Python's re, as far as the sample texts go.
Whitespace == {" ", "\t", "\n"}

SentenceEnd == {".", "!", "?"}

IsUpper(c) == c \in CharsOf(UpperLetters)

LowerChar(c) ==
    IF IsUpper(c)
    THEN Ch(LowerLetters, CHOOSE i \in 1..Len(UpperLetters) : Ch(UpperLetters, i) = c)
    ELSE c

UpperChar(c) ==
    IF c \in CharsOf(LowerLetters)
    THEN Ch(UpperLetters, CHOOSE i \in 1..Len(LowerLetters) : Ch(LowerLetters, i) = c)
    ELSE c

RECURSIVE ToLower(_)
\* str.lower()
ToLower(s) ==
    IF s = "" THEN "" ELSE LowerChar(Ch(s, 1)) \o ToLower(SubSeq(s, 2, Len(s)))

\* str.capitalize() of a translation: the first character in upper case, the rest lower.
Capitalize(s) ==
    IF s = "" THEN "" ELSE UpperChar(Ch(s, 1)) \o ToLower(SubSeq(s, 2, Len(s)))

\* s[i:].startswith(sub), i 1-based
StartsWithAt(s, sub, i) ==
    /\ i + Len(sub) - 1 <= Len(s)
    /\ SubSeq(s, i, i + Len(sub) - 1) = sub

\* sub in s
Contains(s, sub) == \E i \in 1..(Len(s) - Len(sub) + 1) : StartsWithAt(s, sub, i)

EndsWith(s, sub) ==
    /\ Len(sub) <= Len(s)
    /\ SubSeq(s, Len(s) - Len(sub) + 1, Len(s)) = sub

RECURSIVE Replace(_, _, _)
\* str.replace(old, new): every non-overlapping occurrence, left to right.
Replace(s, old, new) ==
    IF s = "" \/ old = "" THEN s
    ELSE IF StartsWithAt(s, old, 1)
         THEN new \o Replace(SubSeq(s, Len(old) + 1, Len(s)), old, new)
         ELSE Ch(s, 1) \o Replace(SubSeq(s, 2, Len(s)), old, new)

RECURSIVE RunEnd(_, _, _)
\* The last position of the maximal run of characters of class cls that starts at
\* position i of s (i - 1 when the character at i is not in cls).
RunEnd(s, i, cls) ==
    IF i <= Len(s) /\ Ch(s, i) \in cls THEN RunEnd(s, i + 1, cls) ELSE i - 1

RECURSIVE FindRuns(_, _, _)
\* re.findall of a pattern [cls]+ : the maximal runs of characters of cls, from i on.
FindRuns(s, i, cls) ==
    IF i > Len(s) THEN << >>
    ELSE LET e == RunEnd(s, i, cls)
         IN  IF e >= i
             THEN <<SubSeq(s, i, e)>> \o FindRuns(s, e + 1, cls)
             ELSE FindRuns(s, i + 1, cls)

RECURSIVE FindPrefixed(_, _, _, _)
\* re.findall of a pattern <prefix>[cls]+ : the prefix followed by a maximal run.
FindPrefixed(s, i, prefix, cls) ==
    IF i > Len(s) THEN << >>
    ELSE IF StartsWithAt(s, prefix, i) /\ RunEnd(s, i + Len(prefix), cls) >= i + Len(prefix)
         THEN LET e == RunEnd(s, i + Len(prefix), cls)
              IN  <<SubSeq(s, i, e)>> \o FindPrefixed(s, e + 1, prefix, cls)
         ELSE FindPrefixed(s, i + 1, prefix, cls)

RECURSIVE LStrip(_)
LStrip(s) ==
    IF s # "" /\ Ch(s, 1) \in Whitespace THEN LStrip(SubSeq(s, 2, Len(s))) ELSE s

RECURSIVE RStrip(_)
RStrip(s) ==
    IF s # "" /\ Ch(s, Len(s)) \in Whitespace THEN RStrip(SubSeq(s, 1, Len(s) - 1)) ELSE s

\* str.strip()
Strip(s) == LStrip(RStrip(s))

\* _WORD_PATTERN.findall(text)
FindWords(text) == FindRuns(text, 1, WordPatternChars)

\* list(f) for a function f on 1..n: the same sequence with every element
\* computed once.
AsList(f) == << >> \o f

MapSeq(F(_), seq) == [i \in 1..Len(seq) |-> F(seq[i])]

SeqRange(seq) == {seq[i] : i \in 1..Len(seq)}

RECURSIVE SelectIdx(_, _, _)
\* The positions 1..n that satisfy Keep, ascending.
SelectIdx(Keep(_), i, n) ==
    IF i > n THEN << >>
    ELSE IF i = n THEN (IF Keep(i) THEN <<i>> ELSE << >>)
    ELSE SelectIdx(Keep, i, (i + n) \div 2) \o SelectIdx(Keep, ((i + n) \div 2) + 1, n)

Max(a, b) == IF a >= b THEN a ELSE b

Min(a, b) == IF a <= b THEN a ELSE b

Abs(a) == IF a >= 0 THEN a ELSE -a

(***************************************************************************)
(* Values: None, fractions, optional fields                                *)
(***************************************************************************)
\* Python's None in a field that otherwise holds a string.
None == "None"

\* Document.cluster_id = None (cluster ids start at 1).
NoCluster == 0

\* Document.sponsored_score = None (scores are hundredths, 0..100).
NoScore == -1

\* A float that is a quotient of two counts, kept exact.
Frac(n, d) == [num |-> n, den |-> d]

\* Document.lang_conf = None
NoFrac == Frac(0, 0)

FracLt(a, b) == a.num * b.den < b.num * a.den

RECURSIVE NumStr(_)
\* str(n) of a count, as the f-string of the placeholder renders it.
NumStr(n) == IF n < 10 THEN Ch(Digits, n + 1) ELSE NumStr(n \div 10) \o Ch(Digits, (n % 10) + 1)

\* The list of n elements given as the set of its <<position, element>> pairs.
Placed(pairs, n) == [p \in 1..n |-> (CHOOSE pair \in pairs : pair[1] = p)[2]]

\* a and b, each in descending order of key, merged: an element of a goes behind
\* the elements of b with a larger key, an element of b behind the elements of a
\* whose key is not smaller.
MergeDesc(Key(_), a, b) ==
    Placed({<<i + Cardinality({j \in 1..Len(b) : Key(b[j]) > Key(a[i])}), a[i]>> :
               i \in 1..Len(a)}
             \cup {<<j + Cardinality({i \in 1..Len(a) : Key(a[i]) >= Key(b[j])}), b[j]>> :
                      j \in 1..Len(b)},
           Len(a) + Len(b))

RECURSIVE SortRange(_, _, _, _)
\* seq[lo..hi] by key descending, elements of equal key in their original order.
SortRange(Key(_), seq, lo, hi) ==
    IF lo > hi THEN << >>
    ELSE IF lo = hi THEN <<seq[lo]>>
    ELSE MergeDesc(Key, SortRange(Key, seq, lo, (lo + hi) \div 2),
                   SortRange(Key, seq, ((lo + hi) \div 2) + 1, hi))

\* sorted(seq, key=Key, reverse=True) and list.sort(key=Key, reverse=True): by key
\* descending, elements of equal key in their original order.
StableSortDesc(Key(_), seq) == SortRange(Key, seq, 1, Len(seq))

\* seq[:n]
FirstN(seq, n) == SubSeq(seq, 1, Min(n, Len(seq)))

\* The elements of seq at the positions idx.
AtIdx(seq, idx) == [k \in 1..Len(idx) |-> seq[idx[k]]]

\* [x for x in seq if Keep(x)]
Filter(Keep(_), seq) == AtIdx(seq, SelectIdx(LAMBDA k : Keep(seq[k]), 1, Len(seq)))

(***************************************************************************)
(* Step 1 - language detection and normalisation                           *)
(***************************************************************************)
_ITALIAN_WORDS ==
    {"e", "che", "non", "per", "con", "sono", "fare", "allenamento", "ciao",
     "ragazzi", "consiglio", "evito", "sempre", "giorno", "grande", "bene"}

_ENGLISH_WORDS ==
    {"and", "the", "for", "with", "are", "workout", "hello", "guys", "tip",
     "avoid", "always", "day", "great"}

_SLANG_TOKENS == {"lol", "lmao", "haha", "ahah", "omg", "raga", "tipo", "yolo"}

\* _EMOJI_PATTERN matches code points from U+2600 up, which a TLA+ string cannot
\* hold: in the sample texts the currency sign stands for one emoji character.
EmojiChars == {"¤"}

\* [token.lower() for token in _WORD_PATTERN.findall(text)]
LowerWords(text) == MapSeq(ToLower, FindWords(text))

CountIn(seq, S) == Cardinality({i \in 1..Len(seq) : seq[i] \in S})

\* _detect_language, with two helpers that take what it computes: the
\* _LanguageDetectionResult, confidence and secondary share as exact fractions.  min(confidence, 1.0) changes nothing: hits <= total.  With no
\* stop-word hit the result is Italian at confidence 0.5, whatever the caller targets.
DetectFromHits(italian_hits, english_hits, total) ==
    IF italian_hits = 0 /\ english_hits = 0
    THEN [lang |-> "it", confidence |-> Frac(1, 2), secondary_share |-> Frac(0, 1)]
    ELSE IF italian_hits >= english_hits
         THEN [lang |-> "it", confidence |-> Frac(italian_hits, total),
               secondary_share |-> Frac(english_hits, total)]
         ELSE [lang |-> "en", confidence |-> Frac(english_hits, total),
               secondary_share |-> Frac(italian_hits, total)]

DetectFromTokens(tokens) ==
    DetectFromHits(CountIn(tokens, _ITALIAN_WORDS), CountIn(tokens, _ENGLISH_WORDS),
                   Max(Len(tokens), 1))

_detect_language(text) == DetectFromTokens(LowerWords(text))

_TRANSLATION_GLOSSARY ==
    [workout |-> "allenamento", training |-> "allenamento", tip |-> "consiglio",
     avoid |-> "evita", healthy |-> "sano", mindset |-> "mentalità", focus |-> "focus"]

\* _replace: the glossary's translation of one matched word, its first letter
\* capitalised when the word's first letter is.
_replace(word) ==
    LET lower == ToLower(word)
    IN  IF lower \in DOMAIN _TRANSLATION_GLOSSARY
        THEN IF IsUpper(Ch(word, 1))
             THEN Capitalize(_TRANSLATION_GLOSSARY[lower])
             ELSE _TRANSLATION_GLOSSARY[lower]
        ELSE word

RECURSIVE SubWords(_, _)
\* re.sub(r"[A-Za-z']+", _replace, text), from position i on.
SubWords(text, i) ==
    IF i > Len(text) THEN ""
    ELSE LET e == RunEnd(text, i, TranslateChars)
         IN  IF e >= i
             THEN _replace(SubSeq(text, i, e)) \o SubWords(text, e + 1)
             ELSE Ch(text, i) \o SubWords(text, i + 1)

RECURSIVE ProtectTags(_, _, _)
\* The inner loop of _conservative_translate over one pattern's matches: each tag
\* gets the placeholder numbered by the entries made so far and is replaced in the
\* text.  st = [text, protected], protected the dict as a sequence of
\* <<placeholder, tag>> in insertion order.
ProtectTags(st, tags, k) ==
    IF k > Len(tags) THEN st
    ELSE LET placeholder == "§" \o NumStr(Len(st.protected)) \o "§"
         IN  ProtectTags([text |-> Replace(st.text, tags[k], placeholder),
                          protected |-> Append(st.protected, <<placeholder, tags[k]>>)],
                         tags, k + 1)

RECURSIVE RestoreTags(_, _, _)
\* for placeholder, original in protected.items(): translated.replace(...)
RestoreTags(translated, protected, k) ==
    IF k > Len(protected) THEN translated
    ELSE RestoreTags(Replace(translated, protected[k][1], protected[k][2]), protected, k + 1)

\* One pass of the outer loop: the matches of <prefix>[\w_]+ in the text as it is
\* now, each protected in turn.
ProtectPattern(st, prefix) == ProtectTags(st, FindPrefixed(st.text, 1, prefix, WordChars), 1)

\* The translation of the protected text, and the protected spans put back.
TranslateProtected(st) == RestoreTags(SubWords(st.text, 1), st.protected, 1)

_conservative_translate(text, target) ==
    IF target # "it" THEN text
    ELSE TranslateProtected(
             ProtectPattern(ProtectPattern([text |-> text, protected |-> << >>], "#"), "@"))

\* re.search(r"(.)\1{2,}", text): some character, not a newline, three times in a row.
HasRepeatRun(text) ==
    \E i \in 1..(Len(text) - 2) :
        /\ Ch(text, i) # "\n"
        /\ Ch(text, i + 1) = Ch(text, i)
        /\ Ch(text, i + 2) = Ch(text, i)

_detect_slang(tokens, text) ==
    \/ \E i \in 1..Len(tokens) : tokens[i] \in _SLANG_TOKENS
    \/ HasRepeatRun(text)
    \/ \E i \in 1..Len(text) : Ch(text, i) \in EmojiChars

\* mixed = detection.confidence < 0.9 or detection.secondary_share > 0.15
IsMixed(detection) ==
    \/ FracLt(detection.confidence, Frac(9, 10))
    \/ FracLt(Frac(15, 100), detection.secondary_share)

\* A variant of LangFixAssign that also puts the kind back to "unknown".
LangFixAssignKind(doc, detection, mixed, slang, target_lang) ==
    [doc EXCEPT !.lang = detection.lang,
                !.lang_conf = detection.confidence,
                !.mixed_lang = mixed,
                !.slang = slang,
                !.text_norm = IF mixed THEN _conservative_translate(doc.text, target_lang)
                              ELSE doc.text,
                !.kind = "unknown"]

\* The assignments of lang_fix, given what it computed.
LangFixAssign(doc, detection, mixed, slang, target_lang) ==
    [doc EXCEPT !.lang = detection.lang,
                !.lang_conf = detection.confidence,
                !.mixed_lang = mixed,
                !.slang = slang,
                !.text_norm = IF mixed THEN _conservative_translate(doc.text, target_lang)
                              ELSE doc.text]

LangFixDetected(doc, detection, target_lang) ==
    LangFixAssign(doc, detection, IsMixed(detection),
                  _detect_slang(LowerWords(doc.text), doc.text), target_lang)

\* lang_fix(doc, target_lang): the document with its five language fields set.
lang_fix(doc, target_lang) == LangFixDetected(doc, _detect_language(doc.text), target_lang)

(***************************************************************************)
(* Step 5 - sponsored detector                                             *)
(***************************************************************************)
_AD_HASHTAGS == {"#ad", "#adv", "#sponsored", "#sponsorizzato", "#collaborazione", "#partner"}

_PAID_PARTNERSHIP_KEYWORDS ==
    {"paid partnership", "partnership a pagamento", "in collaborazione con",
     "collaborazione con", "in partnership con"}

_DISCOUNT_KEYWORDS == {"codice", "code", "sconto", "discount", "promo"}

_AFFILIATE_DOMAINS == {"amzn.to", "bit.ly", "go.magik.ly", "shopstyle.it", "rstyle.me"}

\* any(tag in text.lower() for tag in _AD_HASHTAGS)
_re_has_ad_hashtags(text) == \E tag \in _AD_HASHTAGS : Contains(ToLower(text), tag)

\* A metadata value: absent (dict.get gives None), a bool or a str.
MetaNone == [t |-> "none"]

\* dict(): no metadata
NoMeta == [key \in {} |-> MetaNone]

MetaBool(b) == [t |-> "bool", b |-> b]

MetaStr(s) == [t |-> "str", s |-> s]

\* Python's truth value of a metadata value, as `or` tests it.
Truthy(v) ==
    CASE v.t = "bool" -> v.b
      [] v.t = "str" -> v.s # ""
      [] OTHER -> FALSE

\* dict.get(key)
MetaGet(meta, key) == IF key \in DOMAIN meta THEN meta[key] ELSE MetaNone

\* a or b
PyOr(a, b) == IF Truthy(a) THEN a ELSE b

\* What _has_paid_partnership_badge returns for the value it looked up.
BadgeValue(partnership) ==
    CASE partnership.t = "bool" -> partnership.b
      [] partnership.t = "str" -> ToLower(partnership.s) \in {"true", "1", "yes"}
      [] OTHER -> FALSE

_has_paid_partnership_badge(meta) ==
    BadgeValue(PyOr(MetaGet(meta, "paid_partnership"), MetaGet(meta, "partnership")))

\* Whether a whitespace run starting at position from ends at position ws and a
\* word character follows it.
WordAfterSpace(lower, from, ws) ==
    /\ ws >= from
    /\ ws + 1 <= Len(lower)
    /\ Ch(lower, ws + 1) \in WordChars

\* re.search(r"codice\s+\w+", lower)
HasCodiceWord(lower) ==
    \E i \in 1..Len(lower) :
        /\ StartsWithAt(lower, "codice", i)
        /\ WordAfterSpace(lower, i + 6, RunEnd(lower, i + 6, Whitespace))

DiscountIn(lower) ==
    \/ \E keyword \in _DISCOUNT_KEYWORDS : Contains(lower, keyword)
    \/ HasCodiceWord(lower)

_has_discount_code(text) == DiscountIn(ToLower(text))

\* The length of the scheme https?:// at position i of s, 0 when there is none.
SchemeLen(s, i) ==
    IF StartsWithAt(s, "https://", i) THEN 8
    ELSE IF StartsWithAt(s, "http://", i) THEN 7 ELSE 0

RECURSIVE FindUrls(_, _)
RECURSIVE FindUrlAt(_, _, _, _)
\* _URL_PATTERN.findall(s): http, an optional s, ://, then one or more of [\w./%-].
FindUrls(s, i) ==
    IF i > Len(s) THEN << >>
    ELSE FindUrlAt(s, i, SchemeLen(s, i), RunEnd(s, i + SchemeLen(s, i), UrlChars))

\* The match at i, if the scheme (head characters) is followed by a run ending at e.
FindUrlAt(s, i, head, e) ==
    IF head > 0 /\ e >= i + head
    THEN <<SubSeq(s, i, e)>> \o FindUrls(s, e + 1)
    ELSE FindUrls(s, i + 1)

AffiliateIn(urls) ==
    \E k \in 1..Len(urls) : \E domain \in _AFFILIATE_DOMAINS : Contains(urls[k], domain)

_has_affiliate_url(text) == AffiliateIn(FindUrls(ToLower(text), 1))

\* The four contributions of sponsored_detector, in hundredths.
AdHashtagPct == 60

BadgePct == 30

DiscountPct == 20

PhrasePct == 30

\* The label thresholds of sponsored_detector, in hundredths.
SponsoredPct == 75

UncertainPct == 50

\* The sum of the contributions before the cap, in hundredths; text is
\* doc.text.lower().
SignalSum(text, meta) ==
      (IF _re_has_ad_hashtags(text) THEN AdHashtagPct ELSE 0)
    + (IF _has_paid_partnership_badge(meta) THEN BadgePct ELSE 0)
    + (IF _has_discount_code(text) \/ _has_affiliate_url(text) THEN DiscountPct ELSE 0)
    + (IF \E keyword \in _PAID_PARTNERSHIP_KEYWORDS : Contains(text, keyword)
       THEN PhrasePct ELSE 0)

SponsoredRawPct(doc) == SignalSum(ToLower(doc.text), doc.meta)

\* A variant of CapScore that leaves the sum uncapped.
Uncapped(raw) == raw

\* score = min(score, 1.0)
CapScore(raw) == Min(raw, 100)

\* The first conditional of sponsored_detector: the label.
SponsoredLabel(score) ==
    IF score >= SponsoredPct THEN "sponsored"
    ELSE IF score >= UncertainPct THEN "uncertain" ELSE "organic"

\* A variant of SponsoredKind whose "uncertain" band starts above 0.5 instead of at it.
SponsoredKindAbove(score) ==
    IF score >= SponsoredPct THEN "sponsored"
    ELSE IF UncertainPct < score /\ score < SponsoredPct THEN "uncertain" ELSE "organic"

\* The second conditional of sponsored_detector: the kind.
SponsoredKind(score) ==
    IF score >= SponsoredPct THEN "sponsored"
    ELSE IF UncertainPct <= score /\ score < SponsoredPct THEN "uncertain" ELSE "organic"

\* The assignments without the one to doc.kind.
SponsoredAssignKeepKind(doc, score) ==
    [doc EXCEPT !.sponsored_label = SponsoredLabel(score),
                !.sponsored_score = score]

\* sponsored_detector(doc): the document with label, score (round(score, 2), in
\* hundredths) and kind set (SponsoredAssign: its three assignments).
SponsoredAssign(doc, score) ==
    [doc EXCEPT !.sponsored_label = SponsoredLabel(score),
                !.sponsored_score = score,
                !.kind = SponsoredKind(score)]

sponsored_detector(doc) == SponsoredAssign(doc, CapScore(SponsoredRawPct(doc)))

(***************************************************************************)
(* Raw records, documents and ingestion                                    *)
(***************************************************************************)
\* A ts given as a string: an ISO-8601 date-time of the given day with suffix "Z",
\* "+00:00" or "" (no offset), or a string that is no ISO date-time (valid = FALSE).
TsStr(valid, day, suffix) == [t |-> "str", valid |-> valid, day |-> day, suffix |-> suffix]

\* A ts given as a datetime, offset-aware or naive.
TsDatetime(day, aware) == [t |-> "datetime", day |-> day, aware |-> aware]

\* A ts of any other type.
TsOther == [t |-> "int"]

\* No exception is pending.
NoException == [type |-> "None", origin |-> "None", names |-> << >>]

\* An exception: its class, the statement that raised it and, for the
\* missing-fields error, the key names its message lists.
Exception(type, origin, names) == [type |-> type, origin |-> origin, names |-> names]

\* required, in the order sorted() gives its elements.
RequiredSorted == <<"id", "platform", "text", "ts", "url">>

Required == SeqRange(RequiredSorted)

\* A variant of SortedMissing that names only the first missing key.
FirstMissing(missing) == FirstN(Filter(LAMBDA key : key \in missing, RequiredSorted), 1)

\* sorted(missing)
SortedMissing(missing) == Filter(LAMBDA key : key \in missing, RequiredSorted)

\* ts_value.replace("Z", "+00:00") on the suffix of the string.
ReplaceZ(suffix) == IF suffix = "Z" THEN "+00:00" ELSE suffix

\* Document(...) as _ingest builds it: the enrichment fields at their defaults.
NewDocument(id, url, ts, platform, text, kind, meta) ==
    [id |-> id, url |-> url, ts |-> ts, platform |-> platform, text |-> text,
     kind |-> kind, meta |-> meta,
     lang |-> None, lang_conf |-> NoFrac, mixed_lang |-> FALSE, slang |-> FALSE,
     text_norm |-> None, sponsored_label |-> None, sponsored_score |-> NoScore,
     cluster_id |-> NoCluster]

\* _ingest(payload): [exc, doc]; doc is meaningful when exc = NoException.
_ingest(payload) ==
    LET missing == Required \ DOMAIN payload
        raise(e) == [exc |-> e, doc |-> << >>]
    IN  IF missing # {}
        THEN raise(Exception("ValueError", "_ingest", SortedMissing(missing)))
        ELSE LET ts_value == payload.ts
             IN  IF ts_value.t = "str" /\ ~ts_value.valid
                 THEN raise(Exception("ValueError", "datetime.fromisoformat", << >>))
                 ELSE IF ts_value.t \notin {"str", "datetime"}
                 THEN raise(Exception("TypeError", "_ingest", << >>))
                 ELSE [exc |-> NoException,
                       doc |-> NewDocument(
                           payload.id, payload.url,
                           IF ts_value.t = "str"
                           THEN [day |-> ts_value.day,
                                 aware |-> ReplaceZ(ts_value.suffix) # ""]
                           ELSE [day |-> ts_value.day, aware |-> ts_value.aware],
                           ToLower(payload.platform), payload.text,
                           IF "kind" \in DOMAIN payload THEN payload.kind ELSE "unknown",
                           IF "meta" \in DOMAIN payload THEN payload.meta ELSE NoMeta)]

(***************************************************************************)
(* Step 2 - clustering                                                     *)
(***************************************************************************)
_STOPWORDS ==
    {"e", "che", "con", "per", "the", "and", "una", "del", "della", "di", "un",
     "lo", "la", "gli", "le", "a", "da", "su"}

\* A token shorter than this is dropped by _tokenize (len(token) > 2).
MinTokenLen == 3

\* The condition of the comprehension in _tokenize.
TokenKept(token) == ToLower(token) \notin _STOPWORDS /\ Len(token) >= MinTokenLen

\* _tokenize(text)
_tokenize(text) == MapSeq(ToLower, Filter(TokenKept, FindWords(text)))

\* The elements of seq, each once, in the order of their first occurrence.
Dedup(seq) ==
    AtIdx(seq, SelectIdx(LAMBDA k : \A j \in 1..(k - 1) : seq[j] # seq[k], 1, Len(seq)))

RECURSIVE ConcatRange(_, _, _)
ConcatRange(seqs, lo, hi) ==
    IF lo > hi THEN << >>
    ELSE IF lo = hi THEN seqs[lo]
    ELSE ConcatRange(seqs, lo, (lo + hi) \div 2) \o ConcatRange(seqs, ((lo + hi) \div 2) + 1, hi)

\* The lists of seqs, one after the other.
Concat(seqs) == ConcatRange(seqs, 1, Len(seqs))

\* doc.text_norm or doc.text
ClusterSource(doc) ==
    IF doc.text_norm = None \/ doc.text_norm = "" THEN doc.text ELSE doc.text_norm

\* The position of the last document of the batch that carries the id.
LastWithId(documents, id) ==
    CHOOSE i \in 1..Len(documents) :
        /\ documents[i].id = id
        /\ \A j \in (i + 1)..Len(documents) : documents[j].id # id

\* tokenised_docs[id] once the first loop has run: the tokens of the last document
\* that carries the id.
TokenisedDocs(documents, id) ==
    _tokenize(ClusterSource(documents[LastWithId(documents, id)]))

\* tokens[0] if tokens else "vario"
FirstToken(tokens) == IF tokens # << >> THEN tokens[1] ELSE "vario"

\* dominant, for the document at position i
Dominant(documents, i) == FirstToken(TokenisedDocs(documents, documents[i].id))

\* The members of each key: the positions of the documents whose dominant token it is.
GroupBy(dominants, keys) ==
    [k \in 1..Len(keys) |->
        [key |-> keys[k],
         members |-> SelectIdx(LAMBDA i : dominants[i] = keys[k], 1, Len(dominants))]]

\* cluster_map as a sequence of [key, members] in the dict's insertion order, members
\* the positions of the documents in the batch.
ClusterMap(documents) ==
    GroupBy(AsList([i \in 1..Len(documents) |-> Dominant(documents, i)]),
            Dedup(AsList([i \in 1..Len(documents) |-> Dominant(documents, i)])))

\* How many top terms a cluster keeps: counter.most_common(6).
TopTermsMax == 6

\* How many exemplars a cluster keeps: [:3].
ExemplarsMax == 3

\* Counter(all)[term]
CountOf(all, term) == Cardinality({j \in 1..Len(all) : all[j] = term})

\* [term for term, _ in Counter(all).most_common(n)]: by count descending, equal
\* counts in the order the Counter first saw them.
MostCommon(all, n) == FirstN(StableSortDesc(LAMBDA term : CountOf(all, term), Dedup(all)), n)

\* top_terms of the cluster with the given members
TopTerms(documents, members) ==
    MostCommon(Concat([k \in 1..Len(members) |->
                          TokenisedDocs(documents, documents[members[k]].id)]),
               TopTermsMax)

\* exemplar_ids: the ids of the three members with the longest text.
ExemplarIds(documents, members) ==
    MapSeq(LAMBDA i : documents[i].id,
           FirstN(StableSortDesc(LAMBDA i : Len(documents[i].text), members), ExemplarsMax))

\* The minimum-support thresholds: a cluster is discarded when size < 5 and
\* coverage < 0.01.
MinClusterSize == 5

MinCoveragePct == 1

\* A variant of Discarded with the coverage threshold at one half.
DiscardedBelowHalf(size, total_docs) == size < MinClusterSize /\ size * 2 < total_docs

\* A variant of Discarded in which either condition is enough.
DiscardedEither(size, total_docs) ==
    size < MinClusterSize \/ size * 100 < MinCoveragePct * total_docs

Discarded(size, total_docs) == size < MinClusterSize /\ size * 100 < MinCoveragePct * total_docs

\* A variant of NextId in which next_id is never incremented.
NextIdStuck(n) == 1

\* The id given to the n-th cluster that survives the filter: next_id, which starts
\* at 1 and is incremented after each surviving cluster of the loop over cluster_map.
NextId(n) == n

\* clusters.sort(key=lambda c: c.size, reverse=True)
SortClusters(clusters) == StableSortDesc(LAMBDA c : c.size, clusters)

\* TopicCluster(...) for one surviving entry of cluster_map
NewCluster(documents, members, id, total_docs) ==
    [id |-> id,
     size |-> Len(members),
     top_terms |-> TopTerms(documents, members),
     exemplar_ids |-> ExemplarIds(documents, members),
     coverage |-> Frac(Len(members), total_docs)]

\* member.cluster_id = cluster.id: the id the document at position i ends with, n
\* being the numbers of the surviving entries that hold it.
AssignedId(doc, n) == IF n = << >> THEN doc.cluster_id ELSE NextId(n[1])

\* The loop over cluster_map.items() for the entries that survive the filter, then
\* the sort.
ClusterKept(documents, kept, total_docs) ==
    [clusters |->
         SortClusters([n \in 1..Len(kept) |->
                          NewCluster(documents, kept[n].members, NextId(n), total_docs)]),
     documents |->
         [i \in 1..Len(documents) |->
             [documents[i] EXCEPT !.cluster_id =
                 AssignedId(documents[i],
                            SelectIdx(LAMBDA m : i \in SeqRange(kept[m].members),
                                      1, Len(kept)))]]]

ClusterTotal(documents, total_docs) ==
    ClusterKept(documents,
                Filter(LAMBDA entry : ~Discarded(Len(entry.members), total_docs),
                       ClusterMap(documents)),
                total_docs)

\* _cluster_documents(documents): [clusters, documents], the returned list and the
\* documents with the cluster ids written on the members.
_cluster_documents(documents) == ClusterTotal(documents, Max(Len(documents), 1))

(***************************************************************************)
(* Sentences and the style figures shared by steps 4 and 6.  A style       *)
(* figure is a float of the code kept in hundredths, rounded down.         *)
(***************************************************************************)
RECURSIVE SplitAfterEnd(_, _, _)
\* re.split(r"(?<=[.!?])\s+", s): cut at every whitespace run that follows one of
\* . ! ? ; i scans, start is where the current part begins.
SplitAfterEnd(s, i, start) ==
    IF i > Len(s) THEN <<SubSeq(s, start, Len(s))>>
    ELSE IF Ch(s, i) \in Whitespace /\ i > 1 /\ Ch(s, i - 1) \in SentenceEnd
         THEN <<SubSeq(s, start, i - 1)>>
                  \o SplitAfterEnd(s, RunEnd(s, i, Whitespace) + 1, RunEnd(s, i, Whitespace) + 1)
         ELSE SplitAfterEnd(s, i + 1, start)

\* _split_sentences(text)
_split_sentences(text) ==
    Filter(LAMBDA part : part # "", MapSeq(Strip, SplitAfterEnd(Strip(text), 1, 1)))

\* _count_emojis(text)
_count_emojis(text) == Cardinality({i \in 1..Len(text) : Ch(text, i) \in EmojiChars})

\* The imperative verbs _split_by_time looks for in a document's first word.
EvolutionImperatives == {"fai", "usa", "prova", "ricorda", "evita", "sii"}

StyleMetricNames ==
    <<"avg_sentence_len", "emoji_per_100w", "questions_rate", "imperative_rate", "tt_ratio">>

\* len(x) if x else 1
LenOr1(seq) == IF seq # << >> THEN Len(seq) ELSE 1

\* The dict _collect appends for one document, each value in hundredths, from the
\* sentences, words and tokens of its text.
StyleOf(text, sentences, words, tokens) ==
    [avg_sentence_len |-> (100 * Len(words)) \div LenOr1(sentences),
     emoji_per_100w |-> (100 * 100 * _count_emojis(text)) \div Max(Len(words), 1),
     questions_rate |-> IF EndsWith(Strip(text), "?") THEN 100 ELSE 0,
     imperative_rate |->
         IF words # << >> /\ ToLower(words[1]) \in EvolutionImperatives THEN 100 ELSE 0,
     tt_ratio |-> (100 * Cardinality(SeqRange(tokens))) \div LenOr1(tokens)]

EvolutionStyle(doc) ==
    StyleOf(doc.text, _split_sentences(doc.text), FindWords(doc.text), _tokenize(doc.text))

(***************************************************************************)
(* Step 6 - evolution tracker.  jsd, style_delta and the score are in      *)
(* thousandths.                                                            *)
(***************************************************************************)
\* timedelta(days=window_days), window_days = 180
WindowDays == 180

\* round(1000 * log2(n)) for n = 1..64
Log2Milli ==
    <<0, 1000, 1585, 2000, 2322, 2585, 2807, 3000, 3170, 3322, 3459, 3585, 3700,
      3807, 3907, 4000, 4087, 4170, 4248, 4322, 4392, 4459, 4524, 4585, 4644, 4700,
      4755, 4807, 4858, 4907, 4954, 5000, 5044, 5087, 5129, 5170, 5209, 5248, 5285,
      5322, 5358, 5392, 5426, 5459, 5492, 5524, 5555, 5585, 5615, 5644, 5672, 5700,
      5728, 5755, 5781, 5807, 5833, 5858, 5883, 5907, 5931, 5954, 5977, 6000>>

RECURSIVE SumSeq(_)
SumSeq(seq) == IF seq = << >> THEN 0 ELSE Head(seq) + SumSeq(Tail(seq))

RECURSIVE ISqrtFrom(_, _, _)
\* The largest r in lo..hi with r * r <= x, by bisection.
ISqrtFrom(x, lo, hi) ==
    IF lo >= hi THEN lo
    ELSE IF ((lo + hi + 1) \div 2) * ((lo + hi + 1) \div 2) <= x
         THEN ISqrtFrom(x, (lo + hi + 1) \div 2, hi)
         ELSE ISqrtFrom(x, lo, ((lo + hi + 1) \div 2) - 1)

\* floor(sqrt(x)) for 0 <= x < 2^31
ISqrt(x) == ISqrtFrom(x, 0, 46340)

\* Whether sorted(documents, key=lambda d: d.ts) has to compare an offset-aware
\* with a naive datetime, which raises TypeError.
MixedOffsets(documents) ==
    \E i, j \in 1..Len(documents) : documents[i].ts.aware # documents[j].ts.aware

\* past_docs and recent_docs: strictly before the cutoff, and the rest.
WindowsAt(documents_sorted, cutoff) ==
    [past |-> Filter(LAMBDA d : d.ts.day < cutoff, documents_sorted),
     recent |-> Filter(LAMBDA d : d.ts.day >= cutoff, documents_sorted)]

\* cutoff = documents_sorted[-1].ts - timedelta(days=window_days)
WindowsOf(documents_sorted) ==
    WindowsAt(documents_sorted, documents_sorted[Len(documents_sorted)].ts.day - WindowDays)

\* The two windows of _split_by_time as sequences of documents in timestamp order.
SplitWindows(documents) ==
    IF documents = << >> THEN [past |-> << >>, recent |-> << >>]
    ELSE WindowsOf(StableSortDesc(LAMBDA d : -d.ts.day, documents))

\* The Counter over ids as [keys, count], keys in the order the Counter first saw
\* them.
CounterOf(ids) ==
    [keys |-> Dedup(ids),
     count |-> [c \in SeqRange(ids) |-> CountOf(ids, c)]]

\* The cluster ids of the documents that have one.
ClusterIds(docs) ==
    MapSeq(LAMBDA d : d.cluster_id, Filter(LAMBDA d : d.cluster_id # NoCluster, docs))

\* _collect(docs): topics the Counter, total the sum of its counts, style_metrics
\* one dict per document.
_collect(docs) ==
    [topics |-> CounterOf(ClusterIds(docs)),
     total |-> Len(ClusterIds(docs)),
     style_metrics |-> MapSeq(EvolutionStyle, docs)]

\* The count of topic c in a window's Counter (0 when absent).
TopicCount(w, c) == IF c \in DOMAIN w.topics.count THEN w.topics.count[c] ELSE 0

\* One term of _kl in thousandths, for a key with count a of A in the window and b
\* of B in the other: with p = a/A and q = b/B, p/m = 2aB / (aB + bA).
KlTerm(a, A, b, B) ==
    IF a = 0 THEN 0
    ELSE (a * (Log2Milli[2 * a * B] - Log2Milli[a * B + b * A])) \div A

\* _kl(p, m) of _jensen_shannon in thousandths, p the probabilities of window w and
\* m the mean of the two windows' probabilities.
KlMilli(w, other, keys) ==
    SumSeq([k \in 1..Len(keys) |->
               KlTerm(TopicCount(w, keys[k]), w.total,
                      TopicCount(other, keys[k]), other.total)])

JsdOver(past, recent, keys) ==
    (KlMilli(past, recent, keys) + KlMilli(recent, past, keys)) \div 2

\* _jensen_shannon(past_probs, recent_probs) in thousandths.
_jensen_shannon(past, recent) ==
    JsdOver(past, recent, Dedup(past.topics.keys \o recent.topics.keys))

\* The jsd term of evolution_tracker: the divergence when both probability maps are
\* non-empty, else 0.0.
JsdTerm(past, recent) ==
    IF past.total > 0 /\ recent.total > 0 THEN _jensen_shannon(past, recent) ELSE 0

\* n^2 times the population variance of n values with sum s and sum of squares sq.
VarianceN2(n, s, sq) == n * sq - s * s

\* abs(z_recent[m] - z_past[m]) in thousandths for one metric: with sums Sp, Sr over
\* Np, Nr values and pstdev = sqrt(N * sum(v^2) - S^2) / N over all N values,
\* the difference of the z-scores is |Sr/Nr - Sp/Np| / pstdev.
ZDiffOf(pv, rv, n, var) ==
    IF var = 0 THEN 0
    ELSE (1000 * n * Abs(SumSeq(rv) * Len(pv) - SumSeq(pv) * Len(rv)))
             \div (Len(pv) * Len(rv) * Max(ISqrt(var), 1))

ZDiffMilli(pv, rv) ==
    ZDiffOf(pv, rv, Len(pv) + Len(rv),
            VarianceN2(Len(pv) + Len(rv), SumSeq(pv \o rv),
                       SumSeq(MapSeq(LAMBDA v : v * v, pv \o rv))))

\* The values of one metric over a window's dicts.
MetricValues(values, m) == [k \in 1..Len(values) |-> values[k][m]]

\* _mean_abs_z(past_values, recent_values) in thousandths.
_mean_abs_z(past_values, recent_values) ==
    IF past_values = << >> \/ recent_values = << >> THEN 0
    ELSE SumSeq([k \in 1..Len(StyleMetricNames) |->
                    ZDiffMilli(MetricValues(past_values, StyleMetricNames[k]),
                               MetricValues(recent_values, StyleMetricNames[k]))])
             \div Len(StyleMetricNames)

\* The flag thresholds of evolution_tracker, in thousandths.
HighMilli == 650

ModerateMilli == 350

\* The change-point thresholds (recent share >= 0.12, past share < 0.05), in
\* hundredths.
EmergingPct == 12

AbsentPct == 5

EvolutionFlag(score) ==
    IF score >= HighMilli THEN "high"
    ELSE IF score >= ModerateMilli THEN "moderate" ELSE "low"

\* round(score, 2), in hundredths.
RoundPct(milli) == (milli + 5) \div 10

\* The condition with a topic counted as absent from the past only where the past
\* window has clustered documents.
EmergingAfterPast(past, recent, c) ==
    /\ 100 * TopicCount(recent, c) >= EmergingPct * recent.total
    /\ past.total > 0
    /\ 100 * TopicCount(past, c) < AbsentPct * past.total

\* The condition of the loop over recent_probs for topic c.
Emerging(past, recent, c) ==
    /\ 100 * TopicCount(recent, c) >= EmergingPct * recent.total
    /\ \/ past.total = 0
       \/ 100 * TopicCount(past, c) < AbsentPct * past.total

\* change_points: str(cluster id) of the emerging topics, in the order of
\* recent_probs.
ChangePoints(past, recent) ==
    MapSeq(NumStr, Filter(LAMBDA c : Emerging(past, recent, c), recent.topics.keys))

\* score = max(0.0, min(jsd * 0.5 + style_delta * 0.5, 1.0)), in thousandths
EvolutionScore(jsd, style_delta) == Max(0, Min((jsd + style_delta) \div 2, 1000))

EvolutionResult(score, change_points) ==
    [evolution_score |-> RoundPct(score),
     evolution_flag |-> EvolutionFlag(score),
     change_points |-> change_points]

\* evolution_tracker after _split_by_time
EvolutionOf(past, recent) ==
    IF past.total = 0 /\ recent.total = 0
    THEN [evolution_score |-> 0, evolution_flag |-> "low", change_points |-> << >>]
    ELSE EvolutionResult(
             EvolutionScore(JsdTerm(past, recent),
                            _mean_abs_z(past.style_metrics, recent.style_metrics)),
             ChangePoints(past, recent))

EvolutionWindows(windows) == EvolutionOf(_collect(windows.past), _collect(windows.recent))

\* evolution_tracker(documents), for documents sorted() can order:
\* [evolution_score (hundredths), evolution_flag, change_points].
evolution_tracker(documents) == EvolutionWindows(SplitWindows(documents))

(***************************************************************************)
(* Step 7 - consolidation                                                  *)
(***************************************************************************)
RECURSIVE Pow2Mod25(_)
\* 2^i modulo 25.
Pow2Mod25(i) == IF i = 0 THEN 1 ELSE (2 * Pow2Mod25(i - 1)) % 25

RECURSIVE BinadeShift(_)
\* The j with 200 <= k * 2^j < 400, for k > 0: k/200 lies in [2^-j, 2^(1-j)).
BinadeShift(k) ==
    IF k < 200 THEN BinadeShift(2 * k) + 1
    ELSE IF k >= 400 THEN BinadeShift(k \div 2) - 1
    ELSE 0

\* 25 times the fraction the 53-bit mantissa of the double nearest to k/200 drops:
\* the mantissa is k * 2^(49 + j) / 25 rounded, and 2^20 = 1 modulo 25.
MantissaRest(k) == ((k % 25) * Pow2Mod25((49 + BinadeShift(k)) % 20)) % 25

\* round(x, 2) in hundredths for a double x that is the quotient nearest to
\* lo + 0.5 hundredths: a tie the double holds exactly goes to the even hundredth,
\* any other falls as the double does, below or above the tie.
RoundTiePct(lo) ==
    IF (2 * lo + 1) % 25 = 0 THEN (IF lo % 2 = 0 THEN lo ELSE lo + 1)
    ELSE IF 2 * MantissaRest(2 * lo + 1) < 25 THEN lo ELSE lo + 1

\* round(a / b, 2) of a quotient of counts, in hundredths.
RoundRatioPct(a, b) ==
    IF (200 * a) % (2 * b) < b THEN (100 * a) \div b
    ELSE IF (200 * a) % (2 * b) > b THEN ((100 * a) \div b) + 1
    ELSE RoundTiePct((100 * a) \div b)

\* cluster.top_terms[0] if cluster.top_terms else "vario"
LeadingTerm(cluster) == IF cluster.top_terms # << >> THEN cluster.top_terms[1] ELSE "vario"

\* The entries of the distribution, total being the sum the weights are divided by.
TopicsOver(clusters, total) ==
    [k \in 1..Len(clusters) |->
        [topic |-> LeadingTerm(clusters[k]),
         weight |-> RoundRatioPct(clusters[k].size, Max(total, 1))]]

\* _build_topics_distribution(clusters): the coverages share the denominator
\* total_docs, so coverage / total is size / sum of sizes.
_build_topics_distribution(clusters) ==
    TopicsOver(clusters, SumSeq(MapSeq(LAMBDA c : c.size, clusters)))

\* The length evidence snippets are cut to: [:140].
SnippetMax == 140

RECURSIVE FirstLine(_)
\* s.split("\n")[0]
FirstLine(s) ==
    IF s = "" \/ Ch(s, 1) = "\n" THEN "" ELSE Ch(s, 1) \o FirstLine(SubSeq(s, 2, Len(s)))

\* One entry of _build_evidence
Evidence(doc) ==
    [id |-> doc.id, url |-> doc.url,
     snippet |-> FirstN(FirstLine(Strip(doc.text)), SnippetMax),
     kind |-> doc.kind, lang |-> doc.lang, mixed_lang |-> doc.mixed_lang]

\* A variant of _build_evidence that keeps one entry per document id.
EvidenceById(documents) ==
    MapSeq(Evidence,
           AtIdx(documents,
                 SelectIdx(LAMBDA i : \A j \in 1..(i - 1) : documents[j].id # documents[i].id,
                           1, Len(documents))))

\* _build_evidence(documents)
_build_evidence(documents) == MapSeq(Evidence, documents)

\* _sponsored_weight(documents) as [num, den]; 0.0 for no documents.
_sponsored_weight(documents) ==
    Frac(Cardinality({i \in 1..Len(documents) : documents[i].sponsored_label = "sponsored"}),
         Max(Len(documents), 1))

\* max(doc.ts for doc in documents), for a non-empty batch of comparable timestamps.
LatestDay(documents) ==
    CHOOSE d \in {documents[i].ts.day : i \in 1..Len(documents)} :
        \A i \in 1..Len(documents) : documents[i].ts.day <= d

\* _annotate_document(doc)
_annotate_document(doc) ==
    [id |-> doc.id, url |-> doc.url, ts |-> doc.ts, platform |-> doc.platform,
     lang |-> doc.lang, mixed_lang |-> doc.mixed_lang, slang |-> doc.slang,
     kind |-> doc.kind, sponsored_label |-> doc.sponsored_label,
     sponsored_score |-> doc.sponsored_score, text |-> doc.text,
     cluster_id |-> doc.cluster_id]

(***************************************************************************)
(* Step 3 - claim extraction.  A confidence and a rounded coverage are in  *)
(* hundredths.                                                             *)
(***************************************************************************)
\* The names record ids are drawn from, in str order (sorted() of ids follows it).
IdNames == <<"a", "b", "c", "d", "e">>

\* The record ids of the batches in the order of Python's str comparison.
IdOrder ==
    <<"a", "b", "c", "d", "d1", "d2", "d3", "d4", "d5", "d6", "d7", "d8", "e", "p1">>

\* sorted(ids) of a set of record ids
SortedIds(ids) == Filter(LAMBDA id : id \in ids, IdOrder)

\* The words of each pattern: \b<word>\b, or \b<word>\s+<word>\b.
_CLAIM_PATTERNS ==
    <<<<"credo">>, <<"consiglio">>, <<"evito">>, <<"devi">>, <<"dovresti">>,
      <<"mai", "più">>, <<"non", "fare">>>>

_PRO_KEYWORDS == {"amo", "adoro", "ottimo", "pro", "favore", "consiglio", "vale"}

_CON_KEYWORDS == {"odio", "sconsiglio", "contro", "evito", "male", "no"}

\* \b before position i of s: exactly one of the characters at i - 1 and i is a
\* word character.
AtBoundary(s, i) ==
    (i > 1 /\ Ch(s, i - 1) \in WordChars) # (i <= Len(s) /\ Ch(s, i) \in WordChars)

\* A pattern of one word matches at position i.
WordAt(s, word, i) ==
    /\ AtBoundary(s, i)
    /\ StartsWithAt(s, word, i)
    /\ AtBoundary(s, i + Len(word))

\* A pattern of two words matches at position i: the first word, a run of
\* whitespace that ends at e, the second word.
WordPairAt(s, first, second, i, e) ==
    /\ AtBoundary(s, i)
    /\ StartsWithAt(s, first, i)
    /\ e >= i + Len(first)
    /\ StartsWithAt(s, second, e + 1)
    /\ AtBoundary(s, e + 1 + Len(second))

\* pattern.search(sentence) with re.IGNORECASE, s being the sentence in lower case.
PatternSearch(s, words) ==
    \E i \in 1..Len(s) :
        IF Len(words) = 1 THEN WordAt(s, words[1], i)
        ELSE WordPairAt(s, words[1], words[2], i, RunEnd(s, i + Len(words[1]), Whitespace))

\* any(pattern.search(sentence) for pattern in _CLAIM_PATTERNS)
IsClaimSentence(sentence) ==
    \E k \in 1..Len(_CLAIM_PATTERNS) : PatternSearch(ToLower(sentence), _CLAIM_PATTERNS[k])

\* What one claim sentence of a document adds to its entry.
ClaimOccurrence(doc, sentence) ==
    [key |-> ToLower(sentence),
     text |-> sentence,
     id |-> doc.id,
     pro |-> \E token \in SeqRange(_tokenize(sentence)) : token \in _PRO_KEYWORDS,
     contra |-> \E token \in SeqRange(_tokenize(sentence)) : token \in _CON_KEYWORDS]

\* The claim sentences of the documents, in the order the loops visit them.
ClaimOccurrences(cluster_docs) ==
    Concat([d \in 1..Len(cluster_docs) |->
               MapSeq(LAMBDA sentence : ClaimOccurrence(cluster_docs[d], sentence),
                      Filter(IsClaimSentence, _split_sentences(cluster_docs[d].text)))])

\* The entry of one key: the text of its first sentence, the ids of the documents
\* it occurs in, and how many of its sentences hold a pro or a contra keyword.
Candidate(occurrences, key) ==
    [text |-> occurrences[CHOOSE i \in 1..Len(occurrences) :
                              /\ occurrences[i].key = key
                              /\ \A j \in 1..(i - 1) : occurrences[j].key # key].text,
     support_docs |-> {occurrences[i].id : i \in {j \in 1..Len(occurrences) :
                                                     occurrences[j].key = key}},
     pro |-> Cardinality({i \in 1..Len(occurrences) :
                             occurrences[i].key = key /\ occurrences[i].pro}),
     contra |-> Cardinality({i \in 1..Len(occurrences) :
                                occurrences[i].key = key /\ occurrences[i].contra})]

CandidatesOf(occurrences) ==
    MapSeq(LAMBDA key : Candidate(occurrences, key),
           Dedup(MapSeq(LAMBDA occurrence : occurrence.key, occurrences)))

\* _extract_claim_candidates(cluster_docs): claims.values(), in insertion order.
_extract_claim_candidates(cluster_docs) == CandidatesOf(AsList(ClaimOccurrences(cluster_docs)))

\* _determine_stance(data)
_determine_stance(data) ==
    IF data.pro > data.contra THEN "pro"
    ELSE IF data.contra > data.pro THEN "contra"
    ELSE "neutro"

\* _paraphrase_claim(text, stance)
_paraphrase_claim(text, stance) ==
    "Gli autori "
        \o (IF stance = "pro" THEN "sostengono"
            ELSE IF stance = "contra" THEN "mettono in guardia"
            ELSE "osservano")
        \o " che " \o Strip(text)

\* A candidate is dropped when len(support_docs) < 2 and coverage < 0.15.
MinSupportDocs == 2

MinSupportCoveragePct == 15

\* The confidence of a claim: min(0.9, 0.5 + 0.1 * len(support_docs) + 0.3 * coverage)
ConfidenceBasePct == 50

ConfidencePerDocPct == 10

ConfidencePerCoveragePct == 30

ConfidenceMaxPct == 90

\* The filter with "or" in place of "and".
UnsupportedEither(support, size) ==
    support < MinSupportDocs \/ 100 * support < MinSupportCoveragePct * size

\* if len(support_docs) < 2 and coverage < 0.15: continue, for a candidate with
\* support documents out of size in the cluster.
Unsupported(support, size) ==
    support < MinSupportDocs /\ support * 100 < MinSupportCoveragePct * size

\* The sum 0.5 + 0.1 * support + 0.3 * support / size in hundredths, times size.
ConfidenceSum(support, size) ==
    ConfidenceBasePct * size + ConfidencePerDocPct * support * size
        + ConfidencePerCoveragePct * support

\* round(x, 2) in hundredths of the float sum x: at a tie of the exact sum the float
\* lies below it for support 1 and 2 (0.5 + 0.1 and 0.5 + 0.2 are below 0.6 and 0.7
\* as doubles) and above it for support 3 (0.1 * 3 is above 0.3).
RoundConfidencePct(sum, support, size) ==
    IF (2 * sum) % (2 * size) < size THEN sum \div size
    ELSE IF (2 * sum) % (2 * size) > size THEN (sum \div size) + 1
    ELSE IF support >= 3 THEN (sum \div size) + 1
    ELSE sum \div size

\* round(min(0.9, 0.5 + 0.1 * support + 0.3 * support / size), 2)
ClaimConfidence(support, size) ==
    Min(ConfidenceMaxPct, RoundConfidencePct(ConfidenceSum(support, size), support, size))

\* claim_entry for a candidate of a cluster with size documents
ClaimEntry(cluster, candidate, size) ==
    [topic |-> LeadingTerm(cluster),
     text |-> _paraphrase_claim(candidate.text, _determine_stance(candidate)),
     stance |-> _determine_stance(candidate),
     confidence |-> ClaimConfidence(Cardinality(candidate.support_docs), size),
     coverage |-> RoundRatioPct(Cardinality(candidate.support_docs), size),
     evidence_ids |-> SortedIds(candidate.support_docs),
     controversial |-> candidate.pro > 0 /\ candidate.contra > 0]

\* The claims of one cluster, docs_in_cluster being by_cluster.get(cluster.id, []).
ClusterClaims(cluster, docs_in_cluster) ==
    MapSeq(LAMBDA candidate : ClaimEntry(cluster, candidate, Max(Len(docs_in_cluster), 1)),
           Filter(LAMBDA candidate :
                      ~Unsupported(Cardinality(candidate.support_docs),
                                   Max(Len(docs_in_cluster), 1)),
                  _extract_claim_candidates(docs_in_cluster)))

\* by_cluster[cluster_id]: the documents that carry the cluster id, in batch order.
ByCluster(documents, cluster_id) ==
    Filter(LAMBDA doc : doc.cluster_id = cluster_id, documents)

\* _build_claims(clusters, documents)[0]: final_claims.
_build_claims(clusters, documents) ==
    Concat([k \in 1..Len(clusters) |->
               ClusterClaims(clusters[k], ByCluster(documents, clusters[k].id))])

(***************************************************************************)
(* Step 4 - stylometry.  A metric is a float of the code kept as the exact *)
(* fraction of the counts it is computed from.                             *)
(***************************************************************************)
\* The imperative verbs _sentence_metrics looks for in a sentence's first word.
StylometryImperatives == {"fai", "usa", "prova", "ricorda", "evita", "sii", "vai"}

\* _split_sentences(text) or [text]
SentencesOr(text) == IF _split_sentences(text) # << >> THEN _split_sentences(text) ELSE <<text>>

\* The loop of _sentence_metrics over the sentences.
SentenceCounts(sentences) ==
    [sentences |-> Len(sentences),
     total_words |-> SumSeq(MapSeq(LAMBDA sentence : Len(FindWords(sentence)), sentences)),
     questions |-> Cardinality({k \in 1..Len(sentences) : EndsWith(sentences[k], "?")}),
     imperatives |->
         Cardinality({k \in 1..Len(sentences) :
                         /\ FindWords(sentences[k]) # << >>
                         /\ ToLower(FindWords(sentences[k])[1]) \in StylometryImperatives})]

\* _sentence_metrics(text)
_sentence_metrics(text) == SentenceCounts(SentencesOr(text))

\* doc_metrics, from the counts of the text and its tokens
DocMetricsOf(text, counts, tokens) ==
    [avg_sentence_len |-> Frac(counts.total_words, Max(counts.sentences, 1)),
     emoji_per_100w |-> Frac(100 * _count_emojis(text), Max(counts.total_words, 1)),
     questions_rate |-> Frac(counts.questions, Max(counts.sentences, 1)),
     imperative_rate |-> Frac(counts.imperatives, Max(counts.sentences, 1)),
     tt_ratio |-> Frac(Cardinality(SeqRange(tokens)), Max(Len(tokens), 1))]

DocMetrics(doc) == DocMetricsOf(doc.text, _sentence_metrics(doc.text), _tokenize(doc.text))

\* list(per_doc_metrics.values()): one dict per id, in the order the ids were first
\* seen, each the metrics of the last document that carries the id.
PerDocMetrics(documents) ==
    MapSeq(LAMBDA i : DocMetrics(documents[LastWithId(documents, documents[i].id)]),
           SelectIdx(LAMBDA i : \A j \in 1..(i - 1) : documents[j].id # documents[i].id,
                     1, Len(documents)))

RECURSIVE DenProduct(_)
\* The product of the denominators of a list of fractions.
DenProduct(fracs) ==
    IF fracs = << >> THEN 1 ELSE Head(fracs).den * DenProduct(Tail(fracs))

\* The sum of a list of fractions over the common denominator.
FracSum(fracs, den) ==
    Frac(SumSeq(MapSeq(LAMBDA f : f.num * (den \div f.den), fracs)), den)

\* mean(...) of a non-empty list of fractions
FracMean(fracs) ==
    Frac(FracSum(fracs, DenProduct(fracs)).num, Len(fracs) * DenProduct(fracs))

\* mean(v[name] for v in values)
MetricMean(values, name) == FracMean(MapSeq(LAMBDA v : v[name], values))

\* _aggregate(values)
_aggregate(values) ==
    IF values = << >>
    THEN [name \in SeqRange(StyleMetricNames) |-> Frac(0, 1)]
    ELSE [name \in SeqRange(StyleMetricNames) |-> MetricMean(values, name)]

\* _compute_stylometry(documents)[0]: global_metrics.
_compute_stylometry(documents) == _aggregate(AsList(PerDocMetrics(documents)))

(***************************************************************************)
(* Step 7 - the persona profile                                            *)
(***************************************************************************)
\* The platforms of the records, in str order.
PlatformNames == <<"instagram", "tiktok", "youtube">>

\* sorted({doc.platform for doc in documents})
SortedPlatforms(documents) ==
    Filter(LAMBDA name : \E i \in 1..Len(documents) : documents[i].platform = name,
           PlatformNames)

\* _derive_tone_labels(metrics)
_derive_tone_labels(metrics) ==
    (IF FracLt(Frac(1, 5), metrics.questions_rate) THEN <<"coinvolgente">> ELSE << >>)
        \o (IF FracLt(Frac(1, 1), metrics.emoji_per_100w) THEN <<"informale">> ELSE << >>)
        \o (IF FracLt(Frac(15, 1), metrics.avg_sentence_len) THEN <<"approfondito">>
            ELSE <<"diretto">>)
        \o (IF FracLt(Frac(1, 5), metrics.imperative_rate) THEN <<"motivazionale">>
            ELSE << >>)

\* claim_map.get(topic, [])
AssociatedClaims(claims, topic) == Filter(LAMBDA claim : claim.topic = topic, claims)

\* max(values) of a non-empty list of numbers
MaxOf(values) == CHOOSE v \in SeqRange(values) : \A w \in SeqRange(values) : w <= v

\* min(values) of a non-empty list of numbers
MinOf(values) == CHOOSE v \in SeqRange(values) : \A w \in SeqRange(values) : v <= w

\* The confidence of a core value or an angle without claims: 0.6.
DefaultConfidencePct == 60

\* The entry of _derive_core_values for a cluster and the claims of its topic.
CoreValue(cluster, associated_claims) ==
    [value |-> cluster.top_terms[1],
     confidence |->
         IF associated_claims = << >> THEN DefaultConfidencePct
         ELSE RoundRatioPct(SumSeq(MapSeq(LAMBDA claim : claim.confidence, associated_claims)),
                            100 * Len(associated_claims)),
     coverage |->
         IF associated_claims = << >>
         THEN RoundRatioPct(cluster.coverage.num, cluster.coverage.den)
         ELSE MaxOf(MapSeq(LAMBDA claim : claim.coverage, associated_claims)),
     source_ids |->
         SortedIds(UNION {SeqRange(associated_claims[k].evidence_ids) :
                              k \in 1..Len(associated_claims)})]

\* The clusters _derive_core_values does not skip.
HasCoreValue(cluster, claims) ==
    /\ cluster.top_terms # << >>
    /\ ~(/\ FracLt(cluster.coverage, Frac(15, 100))
         /\ AssociatedClaims(claims, cluster.top_terms[1]) = << >>)

\* _derive_core_values(clusters, claims)
_derive_core_values(clusters, claims) ==
    MapSeq(LAMBDA cluster : CoreValue(cluster, AssociatedClaims(claims, cluster.top_terms[1])),
           Filter(LAMBDA cluster : HasCoreValue(cluster, claims), clusters))

\* _build_beliefs_positions(claims)
_build_beliefs_positions(claims) ==
    MapSeq(LAMBDA claim :
               [topic |-> claim.topic, stance |-> claim.stance,
                confidence |-> claim.confidence, coverage |-> claim.coverage,
                evidence_ids |-> claim.evidence_ids, controversial |-> claim.controversial],
           claims)

\* voice_style["metrics"]: round(global_metrics.<name>, 2), in hundredths.
RoundedMetrics(global_metrics) ==
    [name \in SeqRange(StyleMetricNames) |->
        RoundRatioPct(global_metrics[name].num, global_metrics[name].den)]

\* self._build_persona_profile(documents, clusters, claims, global_metrics, evolution,
\* influencer_handle="unknown", platforms=None, languages=None), for a batch
\* max() accepts.
_build_persona_profile(documents, clusters, claims, global_metrics, evolution, language) ==
    [influencer |->
         [handle |-> "unknown",
          platforms |-> SortedPlatforms(documents),
          languages |-> <<language>>],
     data_quality |->
         [docs_total |-> Len(documents),
          mixed_lang_docs |->
              RoundRatioPct(Cardinality({i \in 1..Len(documents) : documents[i].mixed_lang}),
                            Max(Len(documents), 1)),
          sponsored_share |->
              RoundRatioPct(_sponsored_weight(documents).num, _sponsored_weight(documents).den),
          evolution_score |-> evolution.evolution_score,
          evolution_flag |-> evolution.evolution_flag],
     core_values |-> _derive_core_values(clusters, claims),
     beliefs_positions |-> _build_beliefs_positions(claims),
     voice_style |->
         [metrics |-> RoundedMetrics(global_metrics),
          tone_labels |-> _derive_tone_labels(global_metrics),
          taboos_redlines |-> <<"no promesse miracolose">>],
     topics_distribution |-> _build_topics_distribution(clusters),
     evidence |-> _build_evidence(documents),
     last_updated |-> LatestDay(documents)]

(***************************************************************************)
(* Step 8 - the content blueprint                                          *)
(***************************************************************************)
\* The topics whose weight is halved when the batch has sponsored documents.
PromoTopics == {"promo", "brand"}

\* How many pillars the blueprint names: weighted_topics[:3].
PillarsMax == 3

\* Twice the weight of a cluster times total_docs (the coverages of a batch share
\* that denominator): cluster.coverage * (0.5 if ... else 1.0).
TopicWeight(cluster, sponsored_share) ==
    IF sponsored_share.num > 0 /\ LeadingTerm(cluster) \in PromoTopics
    THEN cluster.coverage.num
    ELSE 2 * cluster.coverage.num

\* pillars
Pillars(clusters, sponsored_share) ==
    MapSeq(LeadingTerm,
           FirstN(StableSortDesc(LAMBDA cluster : TopicWeight(cluster, sponsored_share),
                                 clusters),
                  PillarsMax))

\* The angle of a cluster and the claims of its topic.
Angle(cluster, associated_claims) ==
    [angle |->
         IF "dati" \in SeqRange(cluster.top_terms) THEN "data-driven"
         ELSE IF FracLt(cluster.coverage, Frac(1, 5)) THEN "controintuitivo"
         ELSE "best-practice",
     min_conf |->
         IF associated_claims = << >> THEN DefaultConfidencePct
         ELSE MinOf(MapSeq(LAMBDA claim : claim.confidence, associated_claims)),
     from_topic |-> cluster.top_terms[1]]

\* The clusters _blueprint_angles does not skip.
HasAngle(cluster, claims) ==
    /\ cluster.top_terms # << >>
    /\ \A claim \in SeqRange(AssociatedClaims(claims, cluster.top_terms[1])) :
           ~claim.controversial

\* _blueprint_angles(clusters, claims)
_blueprint_angles(clusters, claims) ==
    MapSeq(LAMBDA cluster : Angle(cluster, AssociatedClaims(claims, cluster.top_terms[1])),
           Filter(LAMBDA cluster : HasAngle(cluster, claims), clusters))

\* _voice_guardrails(metrics), the metrics in hundredths
_voice_guardrails(metrics) ==
    [must |-> IF metrics.avg_sentence_len < 1200 THEN <<"hook entro 3s">>
              ELSE <<"approfondire con esempi">>,
     avoid |-> IF metrics.questions_rate > 30 THEN <<"interrogativi retorici eccessivi">>
               ELSE <<"claim non verificabili">>]

\* use_ads = share >= 0.3
UseAds(share) == ~FracLt(share, Frac(3, 10))

\* _sponsored_policy(documents)
_sponsored_policy(documents) ==
    [use_ads_content |-> UseAds(_sponsored_weight(documents)),
     reason |-> IF UseAds(_sponsored_weight(documents))
                THEN "sufficiente materiale sponsorizzato"
                ELSE "training copy on organic only"]

\* self._build_content_blueprint(documents, clusters, claims, persona_profile)
_build_content_blueprint(documents, clusters, claims, profile) ==
    [persona_ref |-> [handle |-> profile.influencer.handle, version |-> profile.last_updated],
     pillars |-> Pillars(clusters, _sponsored_weight(documents)),
     angle_options |-> _blueprint_angles(clusters, claims),
     voice_guardrails |-> _voice_guardrails(profile.voice_style.metrics),
     compliance |-> [red_lines |-> <<"no consigli medici">>],
     sponsored_policy |-> _sponsored_policy(documents)]

(***************************************************************************)
(* CopycatAIPipeline.run as a state machine: one step per record ingested, *)
(* per stage applied to a document, and per batch stage.                   *)
(***************************************************************************)
VARIABLES
    documents,         \* the raw records run was called with
    target_language,   \* self.target_language
    pc,                \* where run is: the stage about to execute, "returned" or "raised"
    cursor,            \* how many items the loop at pc has processed
    ingested,          \* the list of Document objects
    clusters,          \* the list _cluster_documents returned
    claims,            \* the list _build_claims returned
    global_metrics,    \* the StylometryMetrics over the batch
    evolution,         \* the EvolutionResult
    persona_profile,   \* the PersonaProfile
    result,            \* the PipelineResult run returned
    exc,               \* the exception run raised
    previous,          \* what the call of run before this one returned or raised
    args,              \* the arguments of a direct call of a helper function
    value,             \* what that call returned
    clock,             \* OpenRouterClient: the reading self._clock() gives
    _model_cache,      \* OpenRouterClient._model_cache
    _lock,             \* OpenRouterClient._lock
    callers,           \* the coroutines calling list_models
    requests,          \* the GET requests the transport has received
    responded          \* the clock reading at which the transport last answered 200

\* The locals of one call of run.
runVars ==
    <<documents, target_language, pc, cursor, ingested, clusters, claims, global_metrics,
      evolution, persona_profile, result, exc>>

\* A direct call of a helper function.
callVars == <<args, value>>

\* An OpenRouterClient and the coroutines that use it.
clientVars == <<clock, _model_cache, _lock, callers, requests, responded>>

vars == <<runVars, previous, callVars, clientVars>>

\* A local of run that has not been assigned yet.
Unset == << >>

\* No helper function is being called directly.
NoHelperCall ==
    /\ args = Unset
    /\ value = Unset

\* The number of coroutines that call list_models on one client.
MaxCallers == 2

Callers == 1..MaxCallers

\* self._model_cache = None
NoCache == [set |-> FALSE, at |-> 0, models |-> << >>]

\* asyncio.Lock(): not held, nobody waiting.
NewLock == [locked |-> FALSE, waiters |-> << >>]

\* A coroutine that is not inside list_models and has not called it yet.
NotCalling == [pc |-> "idle", now |-> 0, outcome |-> "none", models |-> << >>]

\* OpenRouterClient.__init__: no cache entry, a free lock; the clock reads 0 and
\* the transport has received nothing.
ClientConstructed ==
    /\ clock = 0
    /\ _model_cache = NoCache
    /\ _lock = NewLock
    /\ callers = [c \in Callers |-> NotCalling]
    /\ requests = 0
    /\ responded = 0

\* The longest batch a call is made with.
MaxBatch == 3

\* The days timestamps are drawn from: more than 180 days before the latest, and
\* the latest.
Days == {0, 200}

Targets == {"it", "en"}

\* A complete raw record.
Payload(id, ts, text, meta) ==
    [id |-> id, url |-> "https://example.com/" \o id, ts |-> ts,
     platform |-> "Instagram", text |-> text, kind |-> "unknown", meta |-> meta]

\* payload without the keys in drop
Without(payload, drop) == [k \in (DOMAIN payload) \ drop |-> payload[k]]

\* Texts of the batches: the two of the repository's evolution test (different
\* leading tokens, same style figures).
BatchTexts ==
    {"Parlo di allenamento ogni giorno",
     "Nuovo tema sulla nutrizione completa"}

\* The ts values of the batches: ISO strings without offset and, for the latest
\* day, with a trailing Z.
BatchTs == {TsStr(TRUE, d, "") : d \in Days} \cup {TsStr(TRUE, 200, "Z")}

\* Records that fail ingestion: keys missing, a string that is no ISO date-time, a
\* ts of another type.
InvalidPayloads ==
    {Without(Payload("a", TsStr(TRUE, 0, ""), "ciao", NoMeta), {"url", "platform"}),
     Payload("a", TsStr(FALSE, 0, ""), "ciao", NoMeta),
     Payload("a", TsOther, "ciao", NoMeta)}

\* The ids the k-th record of a batch can carry: its own, or the first record's.
BatchIds(k) == {IdNames[k], IdNames[1]}

\* The records the k-th position of a batch can hold: a valid one, or an invalid one.
BatchPayloads(k) ==
    {Payload(id, ts, text, NoMeta) : id \in BatchIds(k), ts \in BatchTs, text \in BatchTexts}
        \cup InvalidPayloads

RECURSIVE BatchesOf(_)
\* The batches of n records.
BatchesOf(n) ==
    IF n = 0 THEN {<< >>}
    ELSE {Append(b, p) : b \in BatchesOf(n - 1), p \in BatchPayloads(n)}

\* The batches of at most MaxBatch records.
Batches == UNION {BatchesOf(n) : n \in 0..MaxBatch}

\* One call: CopycatAIPipeline(target_language=...).run(documents)
Call(docs, target) == [documents |-> docs, target_language |-> target]

\* A text with any of the four signals sponsored_detector looks for: an ad
\* hashtag, a discount code, an affiliate link, a paid-partnership phrase.
SignalText(hashtag, discount, affiliate, phrase) ==
    (IF phrase THEN "In collaborazione con BrandX" ELSE "Nuova routine")
        \o (IF discount THEN ", usa il codice SCONTO10" ELSE "")
        \o (IF affiliate THEN " https://amzn.to/x1" ELSE "")
        \o (IF hashtag THEN " #ad" ELSE "")

\* The metadata of the single-record calls: none, or paid_partnership with a
\* bool or a str value.
SignalMetas ==
    {NoMeta}
        \cup {[paid_partnership |-> v] :
                 v \in {MetaBool(TRUE), MetaBool(FALSE), MetaStr("true"), MetaStr("1"),
                        MetaStr("yes"), MetaStr("no")}}

SignalPayloads ==
    {Payload("a", TsStr(TRUE, 200, "Z"), SignalText(h, d, a, p), meta) :
         h \in BOOLEAN, d \in BOOLEAN, a \in BOOLEAN, p \in BOOLEAN, meta \in SignalMetas}

\* A record without each non-empty set of required keys.
MissingPayloads ==
    {Without(Payload("a", TsStr(TRUE, 0, ""), "ciao", NoMeta), drop) :
         drop \in (SUBSET Required) \ {{}}}

\* Texts for language detection: two without any Italian or English stop-word, the
\* text of the repository's lang_fix test, one in English, one with slang.
LanguageTexts ==
    {"Nuovo tema sulla nutrizione completa",
     "Bonjour tout le monde",
     "Workout time ragazzi! #StayFit",
     "Hello guys, a great workout for the day",
     "Ahah troppo bello @Marco ¤"}

LanguagePayloads ==
    {Payload("a", ts, text, NoMeta) :
         ts \in {TsStr(TRUE, 200, "+00:00"), TsDatetime(200, FALSE)}, text \in LanguageTexts}

\* Records that come with a kind of their own: a category tag, and the three kinds
\* sponsored_detector assigns, on an organic, an uncertain and a sponsored text.
KindPayloads ==
    {[Payload("a", TsStr(TRUE, 200, ""), text, NoMeta) EXCEPT !.kind = kind] :
         kind \in {"reel", "sponsored", "uncertain", "organic"},
         text \in {"Parlo di allenamento ogni giorno", "Oggi corsa #ad",
                   "Promo in collaborazione con BrandX #ad, dovresti vederla"}}

\* Texts with claim sentences: two claims of which one holds a contra keyword, a
\* pro claim with "non fare" that repeats a sentence of the first text, a claim with
\* a pro and a contra keyword, "mai più" over two blanks with an imperative
\* question, a text on the topic "dati", and a sponsored one on the topic "promo".
ClaimTexts ==
    <<"Credo nel riposo. Evito gli eccessi!",
      "Consiglio il riposo, non fare tardi? Credo nel riposo.",
      "Consiglio yoga ma evito pesi.",
      "Mai  più zuccheri. Vai piano?",
      "dati chiari: devi provare",
      "Promo in collaborazione con BrandX #ad, dovresti vederla">>

\* The batch with the given ids and texts of ClaimTexts.
ClaimBatch(ids, texts) ==
    [k \in 1..Len(ids) |-> Payload(ids[k], TsStr(TRUE, 0, ""), ClaimTexts[texts[k]], NoMeta)]

ClaimBatches ==
    {ClaimBatch(<<"a">>, <<t>>) : t \in 1..Len(ClaimTexts)}
        \cup {ClaimBatch(<<"a", "b">>, texts) :
                 texts \in {<<1, 2>>, <<2, 3>>, <<1, 1>>, <<6, 5>>, <<3, 4>>}}
        \cup {ClaimBatch(<<"a", "a">>, <<1, 1>>),
              ClaimBatch(<<"b", "a", "c">>, <<2, 3, 5>>),
              ClaimBatch(<<"a", "b", "c">>, <<1, 2, 1>>),
              ClaimBatch(<<"a", "b", "c">>, <<6, 6, 4>>)}

\* The calls the runs start from: the batches with the default target language,
\* single records that vary the text, the metadata, the keys and the target, and
\* the batches with claims.
Calls ==
    {Call(b, "it") : b \in Batches}
        \cup {Call(<<p>>, "it") : p \in SignalPayloads \cup MissingPayloads}
        \cup {Call(<<p>>, t) : p \in LanguagePayloads, t \in Targets}
        \cup {Call(b, "it") : b \in ClaimBatches}
        \cup {Call(<<p>>, "it") : p \in KindPayloads}

Init ==
    /\ \E call \in Calls :
           /\ documents = call.documents
           /\ target_language = call.target_language
    /\ pc = "ingest"
    /\ cursor = 0
    /\ ingested = << >>
    /\ clusters = Unset
    /\ claims = Unset
    /\ global_metrics = Unset
    /\ evolution = Unset
    /\ persona_profile = Unset
    /\ result = Unset
    /\ exc = NoException
    /\ previous = Unset
    /\ NoHelperCall
    /\ ClientConstructed

\* run raises e: nothing is returned.
Raise(e) ==
    /\ pc' = "raised"
    /\ exc' = e

\* A variant of Ingest that hands each document to the enrichment loop as soon as
\* it is built, before the next record is looked at.
IngestInterleaved ==
    /\ pc = "ingest"
    /\ IF cursor < Len(documents)
       THEN IF _ingest(documents[cursor + 1]).exc # NoException
            THEN /\ Raise(_ingest(documents[cursor + 1]).exc)
                 /\ UNCHANGED <<cursor, ingested>>
            ELSE /\ ingested' = Append(ingested, _ingest(documents[cursor + 1]).doc)
                 /\ pc' = "lang_fix"
                 /\ UNCHANGED <<cursor, exc>>
       ELSE /\ pc' = "cluster"
            /\ cursor' = 0
            /\ UNCHANGED <<ingested, exc>>
    /\ UNCHANGED <<documents, target_language, clusters, evolution, persona_profile, result>>
    /\ UNCHANGED <<claims, global_metrics, previous, callVars, clientVars>>

\* ingested = [self._ingest(doc) for doc in documents]: one record per step; when
\* the comprehension is done, run enters the loop over ingested (or, with no
\* document, goes on to clustering).
Ingest ==
    /\ pc = "ingest"
    /\ IF cursor < Len(documents)
       THEN LET r == _ingest(documents[cursor + 1])
            IN  IF r.exc # NoException
                THEN /\ Raise(r.exc)
                     /\ UNCHANGED <<cursor, ingested>>
                ELSE /\ ingested' = Append(ingested, r.doc)
                     /\ cursor' = cursor + 1
                     /\ UNCHANGED <<pc, exc>>
       ELSE /\ pc' = IF ingested = << >> THEN "cluster" ELSE "lang_fix"
            /\ cursor' = 0
            /\ UNCHANGED <<ingested, exc>>
    /\ UNCHANGED <<documents, target_language, clusters, evolution, persona_profile, result>>
    /\ UNCHANGED <<claims, global_metrics, previous, callVars, clientVars>>

\* lang_fix(doc, target_lang=self.target_language) on the next document of the loop.
LangFix ==
    /\ pc = "lang_fix"
    /\ ingested' = [ingested EXCEPT ![cursor + 1] = lang_fix(@, target_language)]
    /\ pc' = "sponsored_detector"
    /\ UNCHANGED <<documents, target_language, cursor, clusters, evolution,
                   persona_profile, result, exc>>
    /\ UNCHANGED <<claims, global_metrics, previous, callVars, clientVars>>

\* A variant of SponsoredDetector that goes on to clustering after the first
\* document, whatever the loop has left.
SponsoredDetectorNoBarrier ==
    /\ pc = "sponsored_detector"
    /\ ingested' = [ingested EXCEPT ![cursor + 1] = sponsored_detector(@)]
    /\ cursor' = cursor + 1
    /\ pc' = "cluster"
    /\ UNCHANGED <<documents, target_language, clusters, evolution, persona_profile,
                   result, exc>>
    /\ UNCHANGED <<claims, global_metrics, previous, callVars, clientVars>>

\* sponsored_detector(doc) on the same document; then the next document, or on to
\* clustering.
SponsoredDetector ==
    /\ pc = "sponsored_detector"
    /\ ingested' = [ingested EXCEPT ![cursor + 1] = sponsored_detector(@)]
    /\ cursor' = cursor + 1
    /\ pc' = IF cursor + 1 < Len(ingested) THEN "lang_fix" ELSE "cluster"
    /\ UNCHANGED <<documents, target_language, clusters, evolution, persona_profile,
                   result, exc>>
    /\ UNCHANGED <<claims, global_metrics, previous, callVars, clientVars>>

\* clusters = _cluster_documents(ingested)
ClusterDocuments ==
    /\ pc = "cluster"
    /\ LET r == _cluster_documents(ingested)
       IN  /\ clusters' = r.clusters
           /\ ingested' = r.documents
    /\ pc' = "claims"
    /\ UNCHANGED <<documents, target_language, cursor, evolution, persona_profile,
                   result, exc>>
    /\ UNCHANGED <<claims, global_metrics, previous, callVars, clientVars>>

\* claims, _ = _build_claims(clusters, ingested)
BuildClaims ==
    /\ pc = "claims"
    /\ claims' = _build_claims(clusters, ingested)
    /\ pc' = "stylometry"
    /\ UNCHANGED <<documents, target_language, cursor, ingested, clusters, global_metrics,
                   evolution, persona_profile, result, exc>>
    /\ UNCHANGED <<previous, callVars, clientVars>>

\* global_metrics, platform_metrics, _ = _compute_stylometry(ingested)
ComputeStylometry ==
    /\ pc = "stylometry"
    /\ global_metrics' = _compute_stylometry(ingested)
    /\ pc' = "evolution"
    /\ UNCHANGED <<documents, target_language, cursor, ingested, clusters, claims,
                   evolution, persona_profile, result, exc>>
    /\ UNCHANGED <<previous, callVars, clientVars>>

\* evolution = evolution_tracker(ingested); sorted() raises TypeError when it has to
\* compare an offset-aware with a naive timestamp.
EvolutionTracker ==
    /\ pc = "evolution"
    /\ IF MixedOffsets(ingested)
       THEN /\ Raise(Exception("TypeError", "sorted", << >>))
            /\ UNCHANGED evolution
       ELSE /\ evolution' = evolution_tracker(ingested)
            /\ pc' = "profile"
            /\ UNCHANGED exc
    /\ UNCHANGED <<documents, target_language, cursor, ingested, clusters,
                   persona_profile, result>>
    /\ UNCHANGED <<claims, global_metrics, previous, callVars, clientVars>>

\* self._build_persona_profile(...): max() over the timestamps raises ValueError
\* when there is no document.
BuildPersonaProfile ==
    /\ pc = "profile"
    /\ IF ingested = << >>
       THEN /\ Raise(Exception("ValueError", "max", << >>))
            /\ UNCHANGED persona_profile
       ELSE /\ persona_profile' =
                   _build_persona_profile(ingested, clusters, claims, global_metrics,
                                          evolution, target_language)
            /\ pc' = "blueprint"
            /\ UNCHANGED exc
    /\ UNCHANGED <<documents, target_language, cursor, ingested, clusters, evolution, result>>
    /\ UNCHANGED <<claims, global_metrics, previous, callVars, clientVars>>

\* The rest of run: the blueprint, the annotated documents and the return.
Return ==
    /\ pc = "blueprint"
    /\ result' = [persona_profile |-> persona_profile,
                  content_blueprint |->
                      _build_content_blueprint(ingested, clusters, claims, persona_profile),
                  annotated_documents |-> MapSeq(_annotate_document, ingested)]
    /\ pc' = "returned"
    /\ UNCHANGED <<documents, target_language, cursor, ingested, clusters, evolution,
                   persona_profile, exc>>
    /\ UNCHANGED <<claims, global_metrics, previous, callVars, clientVars>>

Next ==
    \/ Ingest
    \/ LangFix
    \/ SponsoredDetector
    \/ ClusterDocuments
    \/ BuildClaims
    \/ ComputeStylometry
    \/ EvolutionTracker
    \/ BuildPersonaProfile
    \/ Return

Spec == Init /\ [][Next]_vars

(***************************************************************************)
(* lang_fix and sponsored_detector called directly on a Document, as the   *)
(* tests of the repository do: any of the two, in any order, repeatedly.   *)
(***************************************************************************)
\* run has not been called on the pipeline object.
RunNotCalled ==
    /\ documents = << >>
    /\ target_language = "it"
    /\ pc = "idle"
    /\ cursor = 0
    /\ ingested = << >>
    /\ clusters = Unset
    /\ claims = Unset
    /\ global_metrics = Unset
    /\ evolution = Unset
    /\ persona_profile = Unset
    /\ result = Unset
    /\ exc = NoException
    /\ previous = Unset

\* The most calls made on one document.
MaxApplied == 3

\* Texts for the translation: hashtags and mentions next to glossary words, a
\* hashtag and a mention that are a glossary word, tags that begin like another
\* tag of the text, a text of Italian stop-words only, upper-case glossary words,
\* a sponsored text with a glossary word.
TranslateTexts ==
    {"Tip: #fit #fitworkout oggi",
     "Ciao @gym @gymtraining",
     "ciao ragazzi",
     "Healthy Mindset con #workout e @workout",
     "TIP avoid focus",
     "Workout in collaborazione con BrandX #ad"}

\* Texts with hashtags: longer hashtags that begin like an ad hashtag, an ad
\* hashtag in upper case next to another tag, an ad hashtag among words, none.
HashtagTexts ==
    {"Gita #adventure in montagna",
     "Cena con i #partners",
     "#AD e #fit",
     "Gita #adv oggi",
     "Gita in montagna"}

\* The records the documents of the direct calls are built from.
StagePayloads ==
    SignalPayloads
        \cup {Payload("a", TsStr(TRUE, 200, ""), text, NoMeta) :
                  text \in LanguageTexts \cup TranslateTexts \cup HashtagTexts}

\* doc = CopycatAIPipeline()._ingest(raw), then calls with target_lang.
StagesInit ==
    /\ \E payload \in StagePayloads, target_lang \in Targets :
           /\ args = [fn |-> "stages", payload |-> payload, target_lang |-> target_lang]
           /\ value = [doc |-> _ingest(payload).doc, applied |-> << >>]
    /\ RunNotCalled
    /\ ClientConstructed

\* A further call can be made on the document.
CanApply ==
    /\ args # Unset
    /\ args.fn = "stages"
    /\ Len(value.applied) < MaxApplied

\* lang_fix(doc, target_lang): the document is mutated in place.
CallLangFix ==
    /\ CanApply
    /\ value' = [doc |-> lang_fix(value.doc, args.target_lang),
                 applied |-> Append(value.applied, "lang_fix")]
    /\ UNCHANGED <<args, runVars, previous, clientVars>>

\* sponsored_detector(doc): the document is mutated in place.
CallSponsoredDetector ==
    /\ CanApply
    /\ value' = [doc |-> sponsored_detector(value.doc),
                 applied |-> Append(value.applied, "sponsored_detector")]
    /\ UNCHANGED <<args, runVars, previous, clientVars>>

StagesNext ==
    \/ CallLangFix
    \/ CallSponsoredDetector

StageSpec == StagesInit /\ [][StagesNext]_vars

(***************************************************************************)
(* _cluster_documents called directly on a list of Documents, small and    *)
(* large: the minimum-support filter needs more than a hundred documents   *)
(* to discard anything.                                                    *)
(***************************************************************************)
\* Document(id=..., text=...) with the other fields as the tests build them, then
\* lang_fix(doc).
ClusterDoc(id, text) ==
    lang_fix(NewDocument(id, "https://example.com", [day |-> 0, aware |-> FALSE],
                         "instagram", text, "organic", NoMeta),
             "it")

\* One-word texts with three different leading tokens.
ProfileTexts == <<"yoga", "pasta", "corsa">>

\* A batch of counts[1] documents with the first text, then counts[2] with the
\* second, then counts[3] with the third, with the ids d1, d2, ...
ProfileBatch(counts) ==
    [i \in 1..(counts[1] + counts[2] + counts[3]) |->
        ClusterDoc("d" \o NumStr(i),
                   IF i <= counts[1] THEN ProfileTexts[1]
                   ELSE IF i <= counts[1] + counts[2] THEN ProfileTexts[2]
                   ELSE ProfileTexts[3])]

\* The largest size of the small cluster of a large batch.
MaxSmall == 5

\* The large batches: a small cluster of b documents in a batch of 100 * b - 1,
\* 100 * b or 100 * b + 1 documents (coverage just above, at and just below 1%),
\* next to a large cluster and a third one of 0 to 2 documents.
Profiles ==
    {<<(100 * b + d) - (b + c), b, c>> : b \in 1..MaxSmall, d \in {-1, 0, 1}, c \in 0..2}

\* Texts whose first surviving token is "allenamento": after a stop-word, after a
\* word of two letters, in upper case, and as the translation of "Workout".
SharedTokenTexts ==
    <<"Allenamento mattina", "Di allenamento parlo", "Il allenamento top",
      "Workout time", "ALLENAMENTO!", "Un allenamento breve">>

\* A batch given by the ids and the texts of its documents.
BatchOf(ids, texts) == [i \in 1..Len(ids) |-> ClusterDoc(ids[i], texts[i])]

\* The small batches: six documents that share the leading token, the same with a
\* document of another topic, documents without a surviving token next to one
\* whose token is "vario", two topics interleaved, and two documents with the
\* same id.
SmallBatches ==
    {BatchOf(<<"d1", "d2", "d3", "d4", "d5", "d6">>, SharedTokenTexts),
     BatchOf(<<"d1", "d2", "d3", "d4", "d5", "d6", "d7">>, <<"yoga">> \o SharedTokenTexts),
     BatchOf(<<"d1", "d2", "d3">>, <<"e la", "Vario contenuto", "di un">>),
     BatchOf(<<"d1", "d2", "d3", "d4">>, <<"yoga", "pasta fresca", "Yoga!", "Per la pasta">>),
     BatchOf(<<"d1", "d2">>, <<"yoga", "pasta">>),
     BatchOf(<<"d1", "d2", "d3">>, <<"Workout time", "Allenamento mattina", "yoga">>),
     BatchOf(<<"d1", "d1">>, <<"yoga", "pasta">>),
     BatchOf(<<"d1", "d2", "d1">>, <<"yoga", "pasta", "pasta">>)}

ClusterInit ==
    /\ \E batch \in SmallBatches \cup {ProfileBatch(counts) : counts \in Profiles} :
           args = [fn |-> "_cluster_documents", documents |-> batch]
    /\ value = Unset
    /\ RunNotCalled
    /\ ClientConstructed

\* clusters = _cluster_documents(documents); value holds the returned list and the
\* documents, on which the call has written the cluster ids.
CallClusterDocuments ==
    /\ args # Unset
    /\ args.fn = "_cluster_documents"
    /\ value = Unset
    /\ value' = _cluster_documents(args.documents)
    /\ UNCHANGED <<args, runVars, previous, clientVars>>

ClusterNext == CallClusterDocuments

ClusterSpec == ClusterInit /\ [][ClusterNext]_vars

(***************************************************************************)
(* _cluster_documents and _build_claims called one after the other on a    *)
(* list of Documents: clusters of one to eight documents, so that one       *)
(* supporting document is 15% of the cluster or more (six documents) or     *)
(* less (seven).                                                            *)
(***************************************************************************)
\* The most documents on the topic "yoga" in a batch.
MaxCluster == 8

\* The most of them that hold a claim sentence.
MaxSupport == 3

\* The text of the document at position i of the topic when the first `support`
\* documents hold the sentence "Credo nel riposo." (in three spellings, the third
\* after a claim of its own).
TopicText(i, support) ==
    IF i > support THEN "yoga oggi."
    ELSE IF i = 1 THEN "yoga oggi. Credo nel riposo."
    ELSE IF i = 2 THEN "yoga ieri. CREDO nel riposo."
    ELSE "yoga sempre. Evito il sale! Credo nel riposo."

\* The id of the document at position i: d<i>, or the id of the first document for
\* the second one when the batch repeats an id.
TopicId(i, repeated) == IF repeated /\ i = 2 THEN "d1" ELSE "d" \o NumStr(i)

\* n documents on the topic, followed by one on another topic when `other`.
ClaimsBatch(n, support, repeated, other) ==
    [i \in 1..n |-> ClusterDoc(TopicId(i, repeated), TopicText(i, support))]
        \o (IF other THEN <<ClusterDoc("p1", "pasta fresca. Evito il sale!")>> ELSE << >>)

ClaimsBatches ==
    {ClaimsBatch(n, support, repeated, other) :
         n \in 1..MaxCluster, support \in 0..MaxSupport, repeated \in BOOLEAN,
         other \in BOOLEAN}

ClaimsInit ==
    /\ \E batch \in ClaimsBatches : args = [fn |-> "_build_claims", documents |-> batch]
    /\ value = Unset
    /\ RunNotCalled
    /\ ClientConstructed

\* clusters = _cluster_documents(documents)
CallClusterBeforeClaims ==
    /\ args # Unset
    /\ args.fn = "_build_claims"
    /\ value = Unset
    /\ value' = [clusters |-> _cluster_documents(args.documents).clusters,
                 documents |-> _cluster_documents(args.documents).documents,
                 called |-> FALSE,
                 claims |-> << >>]
    /\ UNCHANGED <<args, runVars, previous, clientVars>>

\* claims, _ = _build_claims(clusters, documents)
CallBuildClaims ==
    /\ args # Unset
    /\ args.fn = "_build_claims"
    /\ value # Unset
    /\ ~value.called
    /\ value' = [value EXCEPT !.called = TRUE,
                              !.claims = _build_claims(value.clusters, value.documents)]
    /\ UNCHANGED <<args, runVars, previous, clientVars>>

ClaimsNext ==
    \/ CallClusterBeforeClaims
    \/ CallBuildClaims

ClaimsSpec == ClaimsInit /\ [][ClaimsNext]_vars

(***************************************************************************)
(* OpenRouterClient.list_models called by concurrent tasks of one event    *)
(* loop.  Time is counted in ticks of the injected clock; a task runs      *)
(* without interruption from one await to the next.                        *)
(***************************************************************************)
\* models_ttl, in ticks.
_models_ttl == 2

\* How far the clock is let run.
MaxClock == 5

\* How many requests the transport is let serve.
MaxRequests == 3

\* A variant of Fresh in which an entry that is exactly _models_ttl old is still
\* served.
FreshAtTtl(now) == _model_cache.set /\ now - _model_cache.at <= _models_ttl

\* self._model_cache is not None and now - self._model_cache[0] < self._models_ttl
Fresh(now) == _model_cache.set /\ now - _model_cache.at < _models_ttl

\* The body of a response: a JSON object with or without "data", or a JSON array.
JsonDict(items) == [kind |-> "dict", items |-> items]

JsonList == [kind |-> "list", items |-> << >>]

\* The responses to the n-th request: 200 with the list of the test's handler,
\* 200 with an object without "data", 200 with an array, and a 500.
Responses(n) ==
    {[status_code |-> 200, json |-> JsonDict([data |-> <<"model-" \o NumStr(n)>>])],
     [status_code |-> 200, json |-> JsonDict([error |-> "none"])],
     [status_code |-> 200, json |-> JsonList],
     [status_code |-> 500, json |-> JsonDict([error |-> "down"])]}

\* data.get("data", []) if isinstance(data, dict) else []
ModelsIn(data) ==
    IF data.kind = "dict" /\ "data" \in DOMAIN data.items THEN data.items.data ELSE << >>

\* asyncio.Lock.acquire returns at once for a task that finds the lock free and
\* nobody queued, and for the task at the head of the queue once the lock is free.
CanAcquire(c) ==
    /\ ~_lock.locked
    /\ \/ callers[c].pc = "idle" /\ _lock.waiters = << >>
       \/ callers[c].pc = "waiting" /\ _lock.waiters # << >> /\ Head(_lock.waiters) = c

\* The queue of the lock once c has acquired it.
WaitersWithout(c) ==
    IF callers[c].pc = "waiting" THEN Tail(_lock.waiters) ELSE _lock.waiters

\* clock.advance(1) of the test, or time.monotonic moving on.
Tick ==
    /\ clock < MaxClock
    /\ clock' = clock + 1
    /\ UNCHANGED <<_model_cache, _lock, callers, requests, responded>>
    /\ UNCHANGED <<runVars, previous, callVars>>

\* async with self._lock, for a task that has to queue.
Wait(c) ==
    /\ callers[c].pc = "idle"
    /\ _lock.locked \/ _lock.waiters # << >>
    /\ _lock' = [_lock EXCEPT !.waiters = Append(@, c)]
    /\ callers' = [callers EXCEPT ![c].pc = "waiting"]
    /\ UNCHANGED <<clock, _model_cache, requests, responded>>
    /\ UNCHANGED <<runVars, previous, callVars>>

\* The task acquires the lock, reads the clock, finds the entry fresh, returns its
\* list and releases the lock.
ServeCached(c) ==
    /\ CanAcquire(c)
    /\ Fresh(clock)
    /\ callers' = [callers EXCEPT ![c] = [pc |-> "done", now |-> clock,
                                          outcome |-> "returned",
                                          models |-> _model_cache.models]]
    /\ _lock' = [locked |-> FALSE, waiters |-> WaitersWithout(c)]
    /\ UNCHANGED <<clock, _model_cache, requests, responded>>
    /\ UNCHANGED <<runVars, previous, callVars>>

\* The task acquires the lock, reads the clock, finds no fresh entry and awaits
\* self._client.get, holding the lock.
SendRequest(c) ==
    /\ CanAcquire(c)
    /\ ~Fresh(clock)
    /\ requests < MaxRequests
    /\ requests' = requests + 1
    /\ callers' = [callers EXCEPT ![c].pc = "get", ![c].now = clock]
    /\ _lock' = [locked |-> TRUE, waiters |-> WaitersWithout(c)]
    /\ UNCHANGED <<clock, _model_cache, responded>>
    /\ UNCHANGED <<runVars, previous, callVars>>

\* The response is a 200: the list is stored with the time read before the
\* request and returned, and the lock is released.
ReceiveOk(c) ==
    /\ callers[c].pc = "get"
    /\ \E response \in Responses(requests) :
           /\ response.status_code = 200
           /\ _model_cache' = [set |-> TRUE, at |-> callers[c].now,
                               models |-> ModelsIn(response.json)]
           /\ callers' = [callers EXCEPT ![c].pc = "done", ![c].outcome = "returned",
                                         ![c].models = ModelsIn(response.json)]
    /\ _lock' = [_lock EXCEPT !.locked = FALSE]
    /\ responded' = clock
    /\ UNCHANGED <<clock, requests>>
    /\ UNCHANGED <<runVars, previous, callVars>>

\* The response is not a 200, or the request fails in the transport: the call
\* raises and the lock is released.
ReceiveError(c) ==
    /\ callers[c].pc = "get"
    /\ \E raised \in {"httpx.TransportError"}
                      \cup {"OpenRouterError" : response \in
                                {r \in Responses(requests) : r.status_code # 200}} :
           callers' = [callers EXCEPT ![c].pc = "done", ![c].outcome = raised]
    /\ _lock' = [_lock EXCEPT !.locked = FALSE]
    /\ UNCHANGED <<clock, _model_cache, requests, responded>>
    /\ UNCHANGED <<runVars, previous, callVars>>

\* The caller has its result; the task is free for another call.
Complete(c) ==
    /\ callers[c].pc = "done"
    /\ callers' = [callers EXCEPT ![c] = NotCalling]
    /\ UNCHANGED <<clock, _model_cache, _lock, requests, responded>>
    /\ UNCHANGED <<runVars, previous, callVars>>

ClientInit == ClientConstructed /\ RunNotCalled /\ NoHelperCall

ClientNext ==
    \/ Tick
    \/ \E c \in Callers : Wait(c)
    \/ \E c \in Callers : ServeCached(c)
    \/ \E c \in Callers : SendRequest(c)
    \/ \E c \in Callers : ReceiveOk(c)
    \/ \E c \in Callers : ReceiveError(c)
    \/ \E c \in Callers : Complete(c)

ClientSpec == ClientInit /\ [][ClientNext]_vars

(***************************************************************************)
(* _jensen_shannon called directly on two probability maps, with the       *)
(* rounding of float arithmetic.  A float is an integer number of          *)
(* millionths that keeps FloatDigits significant digits; a probability map *)
(* is the Counter _probabilities_from_counts was given.  The order in      *)
(* which `for key in keys` visits the set `set(p) | set(q)` is not fixed   *)
(* by the language: each call gets one of the possible orders.             *)
(***************************************************************************)
\* The significant decimal digits a float of the model keeps (a Python float
\* keeps 53 binary ones).
FloatDigits == 3

\* The largest count of a key in a Counter.
MaxCount == 2

\* The keys of the probability maps.
JsdKeys == {"1", "2", "3"}

\* The Counters: any subset of the keys, each with a count that may be 0.
Counters == UNION {[keys -> 0..MaxCount] : keys \in SUBSET JsdKeys}

RECURSIVE FloatScale(_, _)
\* The weight of the last digit a float of magnitude x keeps, from unit upwards.
FloatScale(x, unit) ==
    IF x < unit * (10 ^ FloatDigits) THEN unit ELSE FloatScale(x, unit * 10)

\* x rounded to the nearest multiple of scale.
RoundTo(x, scale) == ((x + (scale \div 2)) \div scale) * scale

\* The float nearest to x.
FloatRound(x) ==
    IF x >= 0 THEN RoundTo(x, FloatScale(x, 1)) ELSE -RoundTo(-x, FloatScale(-x, 1))

\* x + y in floats.
FloatAdd(x, y) == FloatRound(x + y)

\* sum(counts.values())
RECURSIVE SumCounts(_, _)
SumCounts(counts, keys) ==
    IF keys = {} THEN 0
    ELSE counts[CHOOSE key \in keys : TRUE]
             + SumCounts(counts, keys \ {CHOOSE key \in keys : TRUE})

CounterTotal(counts) == SumCounts(counts, DOMAIN counts)

\* counts.get(key, 0)
CountGet(counts, key) == IF key \in DOMAIN counts THEN counts[key] ELSE 0

\* value * math.log2(value / max(div_m.get(key, 1e-12), 1e-12)) in millionths, for
\* value = a/A and the other map's probability b/B (0 when the key is absent or
\* the total is 0): value / m is 2 when b = 0 and 2aB / (aB + bA) otherwise.
KlFloatTerm(a, A, b, B) ==
    IF b = 0 THEN FloatRound((1000000 * a) \div A)
    ELSE FloatRound((1000 * a * (Log2Milli[2 * a * B] - Log2Milli[a * B + b * A])) \div A)

RECURSIVE _kl(_, _, _)
\* _kl(div_p, m) with `for key in keys` visiting the keys in the given order; other
\* is the map that m was averaged with.
_kl(div_p, other, keys) ==
    IF keys = << >> THEN 0
    ELSE IF CountGet(div_p, keys[Len(keys)]) = 0
         THEN _kl(div_p, other, SubSeq(keys, 1, Len(keys) - 1))
         ELSE FloatAdd(_kl(div_p, other, SubSeq(keys, 1, Len(keys) - 1)),
                       KlFloatTerm(CountGet(div_p, keys[Len(keys)]), CounterTotal(div_p),
                                   CountGet(other, keys[Len(keys)]), CounterTotal(other)))

\* 0.5 * (_kl(p, m) + _kl(q, m)) for one order of the keys.
JensenShannonIn(p, q, keys) == FloatRound(FloatAdd(_kl(p, q, keys), _kl(q, p, keys)) \div 2)

\* The orders in which a set can be iterated.
OrdersOf(keys) ==
    {order \in [1..Cardinality(keys) -> keys] :
        \A i, j \in 1..Cardinality(keys) : order[i] = order[j] => i = j}

\* A call that has not been made.
NotCalled == [done |-> FALSE, jsd |-> 0]

JsdInit ==
    /\ \E p \in Counters, q \in Counters : args = [fn |-> "_jensen_shannon", p |-> p, q |-> q]
    /\ value = [pq |-> NotCalled, qp |-> NotCalled]
    /\ RunNotCalled
    /\ ClientConstructed

\* _jensen_shannon(p, q)
CallJensenShannonPQ ==
    /\ args # Unset
    /\ args.fn = "_jensen_shannon"
    /\ ~value.pq.done
    /\ \E keys \in OrdersOf(DOMAIN args.p \cup DOMAIN args.q) :
           value' = [value EXCEPT !.pq = [done |-> TRUE,
                                          jsd |-> JensenShannonIn(args.p, args.q, keys)]]
    /\ UNCHANGED <<args, runVars, previous, clientVars>>

\* _jensen_shannon(q, p)
CallJensenShannonQP ==
    /\ args # Unset
    /\ args.fn = "_jensen_shannon"
    /\ ~value.qp.done
    /\ \E keys \in OrdersOf(DOMAIN args.q \cup DOMAIN args.p) :
           value' = [value EXCEPT !.qp = [done |-> TRUE,
                                          jsd |-> JensenShannonIn(args.q, args.p, keys)]]
    /\ UNCHANGED <<args, runVars, previous, clientVars>>

JsdNext == CallJensenShannonPQ \/ CallJensenShannonQP

JsdSpec == JsdInit /\ [][JsdNext]_vars

(***************************************************************************)
(* run called twice on the same records.  _jensen_shannon sums the terms   *)
(* of _kl in the iteration order of the set `keys`, which follows the      *)
(* string hashes of the process (PYTHONHASHSEED): every call of            *)
(* evolution_tracker draws one order, and jsd is the float sum in it.      *)
(***************************************************************************)
\* set(p) | set(q) for the probability maps of the two windows.
WindowKeys(past, recent) == DOMAIN past.topics.count \cup DOMAIN recent.topics.count

\* The jsd term of evolution_tracker in thousandths, `for key in keys` visiting the
\* keys in the given order.
JsdTermIn(past, recent, keys) ==
    IF past.total > 0 /\ recent.total > 0
    THEN JensenShannonIn(past.topics.count, recent.topics.count, keys) \div 1000
    ELSE 0

\* evolution_tracker after _split_by_time, for one order of the keys.
EvolutionOfIn(past, recent, keys) ==
    IF past.total = 0 /\ recent.total = 0
    THEN [evolution_score |-> 0, evolution_flag |-> "low", change_points |-> << >>]
    ELSE EvolutionResult(
             EvolutionScore(JsdTermIn(past, recent, keys),
                            _mean_abs_z(past.style_metrics, recent.style_metrics)),
             ChangePoints(past, recent))

\* The results evolution_tracker can return for the two windows.
EvolutionResultsOf(past, recent) ==
    {EvolutionOfIn(past, recent, keys) : keys \in OrdersOf(WindowKeys(past, recent))}

\* The results evolution_tracker(docs) can return.
EvolutionResults(docs) ==
    EvolutionResultsOf(_collect(SplitWindows(docs).past), _collect(SplitWindows(docs).recent))

\* The texts of the batches: a topic word, with or without a question mark.
RerunTexts == <<"yoga", "yoga?", "pasta", "pasta?", "corsa", "corsa?">>

\* A batch of records d1, d2, ... with the given texts, the first `past` of them
\* 200 days older than the rest.
RerunBatch(texts, past) ==
    [k \in 1..Len(texts) |->
        Payload("d" \o NumStr(k), TsStr(TRUE, IF k <= past THEN 0 ELSE 200, ""),
                texts[k], NoMeta)]

\* Batches with three topics: one with one of the three documents of the older
\* window asking a question, one of four documents with longer texts in each
\* window; one of two documents in each window whose score falls just under 0.35;
\* three within one window, of which one has a cluster of one document in nine
\* and one three clusters of one document; one of two clusters with the same most
\* frequent term, the first with a claim;
\* and batches of one or two topics, an invalid record, no record.
RerunBatches ==
    {RerunBatch(<<"yoga?", "pasta", "pasta", "yoga", "pasta", "pasta", "corsa">>, 3),
     RerunBatch(<<"libri", "musica yoga", "corsa bello", "musica bello?",
                  "corsa bello", "corsa bello?", "corsa bello. Vai?",
                  "musica bello. Vai?">>, 4),
     RerunBatch(<<"yoga molto bello oggi", "corsa molto bello oggi", "yoga",
                  "yoga bello">>, 2),
     RerunBatch(<<"yoga", "yoga", "yoga", "yoga", "yoga", "yoga", "yoga", "yoga",
                  "pasta">>, 0),
     RerunBatch(<<"yoga", "pasta">>, 0),
     RerunBatch(<<"yoga", "pasta", "corsa">>, 0),
     RerunBatch(<<"yoga pasta pasta. Credo nel riposo.", "pasta fresca">>, 0),
     RerunBatch(<<"yoga", "pasta?">>, 1),
     RerunBatch(<<"yoga", "yoga", "yoga">>, 2),
     RerunBatch(<<"corsa?">>, 0),
     <<Payload("d1", TsStr(FALSE, 0, ""), "yoga", NoMeta)>>,
     << >>}

RerunInit ==
    /\ \E batch \in RerunBatches :
           /\ documents = batch
           /\ target_language = "it"
    /\ pc = "ingest"
    /\ cursor = 0
    /\ ingested = << >>
    /\ clusters = Unset
    /\ claims = Unset
    /\ global_metrics = Unset
    /\ evolution = Unset
    /\ persona_profile = Unset
    /\ result = Unset
    /\ exc = NoException
    /\ previous = Unset
    /\ NoHelperCall
    /\ ClientConstructed

\* evolution = evolution_tracker(ingested), in the key order of this call.
EvolutionTrackerOrdered ==
    /\ pc = "evolution"
    /\ IF MixedOffsets(ingested)
       THEN /\ Raise(Exception("TypeError", "sorted", << >>))
            /\ UNCHANGED evolution
       ELSE /\ evolution' \in EvolutionResults(ingested)
            /\ pc' = "profile"
            /\ UNCHANGED exc
    /\ UNCHANGED <<documents, target_language, cursor, ingested, clusters,
                   persona_profile, result>>
    /\ UNCHANGED <<claims, global_metrics, previous, callVars, clientVars>>

\* run is called again with the records of the call that has just ended.
RunAgain ==
    /\ pc \in {"returned", "raised"}
    /\ previous = Unset
    /\ previous' = [documents |-> documents, result |-> result, exc |-> exc]
    /\ pc' = "ingest"
    /\ cursor' = 0
    /\ ingested' = << >>
    /\ clusters' = Unset
    /\ claims' = Unset
    /\ global_metrics' = Unset
    /\ evolution' = Unset
    /\ persona_profile' = Unset
    /\ result' = Unset
    /\ exc' = NoException
    /\ UNCHANGED <<documents, target_language, callVars, clientVars>>

RerunNext ==
    \/ Ingest
    \/ LangFix
    \/ SponsoredDetector
    \/ ClusterDocuments
    \/ BuildClaims
    \/ ComputeStylometry
    \/ EvolutionTrackerOrdered
    \/ BuildPersonaProfile
    \/ Return
    \/ RunAgain

RerunSpec == RerunInit /\ [][RerunNext]_vars

(***************************************************************************)
(* Properties.  Each is stated over the states of run: the raw records it  *)
(* was called with, the documents it holds and what it returned or raised. *)
(***************************************************************************)
\* Two quotients of counts are the same float.
FracEq(a, b) == a.num * b.den = b.num * a.den

\* Whether ingestion has to reject a raw record: a required key is missing, or its
\* ts is neither an ISO-8601 string nor a datetime.
FailsIngestion(payload) ==
    \/ ~(Required \subseteq DOMAIN payload)
    \/ payload.ts.t \notin {"str", "datetime"}
    \/ payload.ts.t = "str" /\ ~payload.ts.valid

HasInvalid == \E k \in 1..Len(documents) : FailsIngestion(documents[k])

\* A document as ingestion leaves it: no stage has written on it.
Unenriched(doc) ==
    /\ doc.lang = None
    /\ doc.text_norm = None
    /\ doc.sponsored_label = None
    /\ doc.sponsored_score = NoScore
    /\ doc.cluster_id = NoCluster

\* The raw records, all of which pass ingestion, carry pairwise distinct ids.
RawIdsDistinct ==
    \A i, j \in 1..Len(documents) : i # j => documents[i].id # documents[j].id

\* The documents carry pairwise distinct ids.
DistinctIds == \A i, j \in 1..Len(ingested) : i # j => ingested[i].id # ingested[j].id

\* C1: run on a batch of zero documents never raises from an unguarded reduction
\* (max over an empty sequence): if it raises, the error is a rejection of the
\* call, and if it returns, the result is the empty state (docs_total = 0, empty
\* topics_distribution, evidence and annotated_documents).
C1_EmptyBatchHandled ==
    documents = << >> =>
        /\ (pc = "raised" => exc.origin # "max")
        /\ (pc = "returned" =>
               /\ result.persona_profile.data_quality.docs_total = 0
               /\ result.persona_profile.topics_distribution = << >>
               /\ result.persona_profile.evidence = << >>
               /\ result.annotated_documents = << >>)

\* The positions of the documents strictly before the latest timestamp minus 180
\* days, and of the others.
PastWindow(docs) == {i \in 1..Len(docs) : docs[i].ts.day < LatestDay(docs) - WindowDays}

RecentWindow(docs) == (1..Len(docs)) \ PastWindow(docs)

ClusterIdsAt(docs, positions) == {docs[i].cluster_id : i \in positions}

\* All past-window documents are in one cluster and all recent-window documents in
\* one other cluster.
TopicShift(docs) ==
    /\ docs # << >>
    /\ PastWindow(docs) # {}
    /\ NoCluster \notin ClusterIdsAt(docs, 1..Len(docs))
    /\ Cardinality(ClusterIdsAt(docs, PastWindow(docs))) = 1
    /\ Cardinality(ClusterIdsAt(docs, RecentWindow(docs))) = 1
    /\ ClusterIdsAt(docs, PastWindow(docs)) # ClusterIdsAt(docs, RecentWindow(docs))

\* C2: when all past-window documents belong to one cluster and all recent-window
\* documents to a different one (the ids of the documents being distinct),
\* evolution_tracker returns the flag "high", a score of at least 0.65 and the
\* recent cluster's id among the change points.
C2_TopicShiftIsHigh ==
    (pc \in {"profile", "blueprint", "returned"} /\ DistinctIds /\ TopicShift(ingested)) =>
        /\ evolution.evolution_flag = "high"
        /\ evolution.evolution_score >= 65
        /\ \A c \in ClusterIdsAt(ingested, RecentWindow(ingested)) :
               NumStr(c) \in SeqRange(evolution.change_points)

\* The required keys a raw record lacks.
MissingOf(payload) == Required \ DOMAIN payload

\* run stopped at a record that lacks required keys.
RaisedOnMissing ==
    /\ pc = "raised"
    /\ cursor < Len(documents)
    /\ MissingOf(documents[cursor + 1]) # {}

\* C3, as stated: ingesting a record that lacks required keys fails with a
\* MissingFieldError whose message names every missing key.
C3_MissingFieldErrorNamesAll ==
    RaisedOnMissing =>
        /\ exc.type = "MissingFieldError"
        /\ SeqRange(exc.names) = MissingOf(documents[cursor + 1])

\* C3, amended: ingesting a record that lacks required keys fails with a ValueError
\* whose message names every missing key, each once, for every non-empty set of
\* missing keys; and a record that lacks a key is never ingested.
C3_ValueErrorNamesAll ==
    /\ RaisedOnMissing =>
           /\ exc.type = "ValueError"
           /\ SeqRange(exc.names) = MissingOf(documents[cursor + 1])
           /\ Len(exc.names) = Cardinality(MissingOf(documents[cursor + 1]))
    /\ \A k \in 1..Len(ingested) : MissingOf(documents[k]) = {}

\* A run that stopped at a record without url and platform, with both named.
C3_Witness ==
    /\ RaisedOnMissing
    /\ MissingOf(documents[cursor + 1]) = {"url", "platform"}
    /\ exc.names = <<"platform", "url">>

\* C4: if any record of the batch fails ingestion, whatever its position, run
\* aborts before any stage has enriched any document: run is ingesting or has
\* raised, every document built so far is as ingestion left it, nothing has been
\* clustered and no result is returned.
C4_InvalidRecordAbortsRun ==
    HasInvalid =>
        /\ pc \in {"ingest", "raised"}
        /\ \A i \in 1..Len(ingested) : Unenriched(ingested[i])
        /\ clusters = Unset
        /\ claims = Unset
        /\ global_metrics = Unset
        /\ evolution = Unset
        /\ persona_profile = Unset
        /\ result = Unset

\* A run that raised at its third record, the two before it ingested and untouched.
C4_Witness ==
    /\ pc = "raised"
    /\ Len(ingested) = 2
    /\ Len(documents) = 3
    /\ FailsIngestion(documents[3])
    /\ \A i \in 1..2 : Unenriched(ingested[i])

\* C5: for every non-empty batch in which every record passes ingestion (the ids
\* of the records being distinct), run completes: no stage after ingestion raises.
C5_ValidBatchCompletes ==
    (documents # << >> /\ ~HasInvalid /\ RawIdsDistinct) => pc # "raised"

\* The metadata whose paid-partnership flag is set: true, "true", "1" or "yes".
FlagSet(meta) ==
    meta \in {[paid_partnership |-> v] :
                 v \in {MetaBool(TRUE), MetaStr("true"), MetaStr("1"), MetaStr("yes")}}

\* min(1.0, 0.6*hashtag + 0.3*flag + 0.2*(discount or affiliate) + 0.3*phrase), in
\* hundredths.
StatedScore(hashtag, flag, discount, affiliate, phrase) ==
    Min(100, (IF hashtag THEN 60 ELSE 0) + (IF flag THEN 30 ELSE 0)
                 + (IF discount \/ affiliate THEN 20 ELSE 0) + (IF phrase THEN 30 ELSE 0))

StatedLabel(score) ==
    IF score >= 75 THEN "sponsored" ELSE IF score >= 50 THEN "uncertain" ELSE "organic"

\* The document at position k has been through sponsored_detector.
Scored(k) == k <= Len(ingested) /\ ingested[k].sponsored_label # None

\* C6: for a document built with any combination of the four signals and any
\* metadata, sponsored_detector gives the score min(1.0, 0.6*[ad hashtag] +
\* 0.3*[flag] + 0.2*[discount or affiliate] + 0.3*[phrase]) and the label
\* "sponsored" from 0.75, "uncertain" from 0.5, otherwise "organic"; with only an
\* #ad hashtag the score is 0.6 and the label "uncertain", and with a true flag
\* added the label is "sponsored".
C6_SponsoredScoreAndLabel ==
    \A k \in 1..Len(documents) :
        Scored(k) =>
            /\ \A h, d, a, p \in BOOLEAN :
                   documents[k].text = SignalText(h, d, a, p) =>
                       /\ ingested[k].sponsored_score =
                              StatedScore(h, FlagSet(documents[k].meta), d, a, p)
                       /\ ingested[k].sponsored_label =
                              StatedLabel(StatedScore(h, FlagSet(documents[k].meta), d, a, p))
            /\ (documents[k].text = SignalText(TRUE, FALSE, FALSE, FALSE)
                    /\ documents[k].meta = NoMeta) =>
                   /\ ingested[k].sponsored_score = 60
                   /\ ingested[k].sponsored_label = "uncertain"
            /\ (documents[k].text = SignalText(TRUE, FALSE, FALSE, FALSE)
                    /\ documents[k].meta = [paid_partnership |-> MetaBool(TRUE)]) =>
                   ingested[k].sponsored_label = "sponsored"

\* A document with all four signals and the flag, whose sum 1.4 is capped at 1.0.
C6_Witness ==
    /\ Scored(1)
    /\ documents[1].text = SignalText(TRUE, TRUE, TRUE, TRUE)
    /\ documents[1].meta = [paid_partnership |-> MetaStr("yes")]
    /\ ingested[1].sponsored_score = 100
    /\ ingested[1].sponsored_label = "sponsored"

\* The text has no Italian and no English stop-word.
NoStopWord(text) ==
    /\ CountIn(LowerWords(text), _ITALIAN_WORDS) = 0
    /\ CountIn(LowerWords(text), _ENGLISH_WORDS) = 0

\* C7: for every target language, a document whose text contains no Italian and no
\* English stop-word gets lang equal to the target language, lang_conf = 0.5 and
\* mixed_lang = true.
C7_DefaultsToTargetLanguage ==
    \A k \in 1..Len(ingested) :
        (ingested[k].lang # None /\ NoStopWord(ingested[k].text)) =>
            /\ ingested[k].lang = target_language
            /\ FracEq(ingested[k].lang_conf, Frac(1, 2))
            /\ ingested[k].mixed_lang

\* C8: in the list clustering returns (for documents of distinct ids), the cluster
\* at position i has id i, so a smaller id never goes with a strictly smaller
\* member count.
C8_IdsFollowSizeOrder ==
    DistinctIds =>
        /\ \A i \in 1..Len(clusters) : clusters[i].id = i
        /\ \A i, j \in 1..Len(clusters) :
               clusters[i].id < clusters[j].id => clusters[i].size >= clusters[j].size

\* C9: the documents run goes on to enrich have pairwise distinct ids.
C9_IngestedIdsDistinct == pc \notin {"ingest", "raised"} => DistinctIds

\* The positions of the documents that carry the cluster id.
Carrying(id) == {i \in 1..Len(ingested) : ingested[i].cluster_id = id}

\* C10: after clustering, every document with a cluster id references exactly one
\* cluster of the returned list, the documents a cluster names carry its id, each
\* cluster's size is the number of documents carrying its id, and its coverage is
\* size / total documents.
C10_ClusterIdsConsistent ==
    /\ \A i \in 1..Len(ingested) :
           ingested[i].cluster_id # NoCluster =>
               Cardinality({j \in 1..Len(clusters) :
                               clusters[j].id = ingested[i].cluster_id}) = 1
    /\ \A j \in 1..Len(clusters) :
           /\ \A i \in 1..Len(ingested) :
                  ingested[i].id \in SeqRange(clusters[j].exemplar_ids) =>
                      ingested[i].cluster_id = clusters[j].id
           /\ clusters[j].exemplar_ids # << >>
           /\ clusters[j].size = Cardinality(Carrying(clusters[j].id))
           /\ FracEq(clusters[j].coverage, Frac(clusters[j].size, Len(ingested)))
           /\ clusters[j].coverage.den # 0

\* Three documents clustered into a cluster of two and a cluster of one.
C10_Witness ==
    /\ pc = "evolution"
    /\ Len(ingested) = 3
    /\ Len(clusters) = 2
    /\ {clusters[1].size, clusters[2].size} = {1, 2}
    /\ \A i \in 1..3 : ingested[i].cluster_id # NoCluster

\* C19: after sponsored_detector a document's kind equals its sponsored_label, for
\* every subset of the four signals and every metadata value, the boundary score
\* 0.5 and the sums above the cap included; and both are what the thresholds 0.75
\* and 0.5 give for the document's score.
C19_KindEqualsLabel ==
    \A k \in 1..Len(ingested) :
        Scored(k) =>
            /\ ingested[k].kind = ingested[k].sponsored_label
            /\ ingested[k].kind = StatedLabel(ingested[k].sponsored_score)

\* A document at the boundary score 0.5 (a discount code and a paid-partnership
\* phrase), labelled and typed "uncertain".
C19_Witness ==
    /\ Scored(1)
    /\ documents[1].text = SignalText(FALSE, TRUE, FALSE, TRUE)
    /\ documents[1].meta = NoMeta
    /\ ingested[1].sponsored_score = 50
    /\ ingested[1].kind = "uncertain"
    /\ ingested[1].sponsored_label = "uncertain"

\* What the text normalisation is stated to give: every hashtag and @-mention
\* copied as it stands, every other run of letters that is a glossary word
\* replaced by its translation, with a capital first letter when the word has
\* one, and everything else copied.
StatedWord(word) ==
    IF ToLower(word) \in DOMAIN _TRANSLATION_GLOSSARY
    THEN IF IsUpper(Ch(word, 1))
         THEN UpperChar(Ch(_TRANSLATION_GLOSSARY[ToLower(word)], 1))
                  \o SubSeq(_TRANSLATION_GLOSSARY[ToLower(word)], 2,
                            Len(_TRANSLATION_GLOSSARY[ToLower(word)]))
         ELSE _TRANSLATION_GLOSSARY[ToLower(word)]
    ELSE word

RECURSIVE StatedNormalized(_, _)
StatedNormalized(text, i) ==
    IF i > Len(text) THEN ""
    ELSE IF Ch(text, i) \in {"#", "@"} /\ RunEnd(text, i + 1, WordChars) > i
         THEN SubSeq(text, i, RunEnd(text, i + 1, WordChars))
                  \o StatedNormalized(text, RunEnd(text, i + 1, WordChars) + 1)
         ELSE IF RunEnd(text, i, TranslateChars) >= i
              THEN StatedWord(SubSeq(text, i, RunEnd(text, i, TranslateChars)))
                       \o StatedNormalized(text, RunEnd(text, i, TranslateChars) + 1)
              ELSE Ch(text, i) \o StatedNormalized(text, i + 1)

\* The hashtags and the @-mentions of a text, in order.
TagsOf(text) ==
    FindPrefixed(text, 1, "#", WordChars) \o FindPrefixed(text, 1, "@", WordChars)

\* lang_fix has been called on the document of the direct calls.
LangFixed ==
    /\ args # Unset
    /\ args.fn = "stages"
    /\ value.doc.lang # None

\* C16: when lang_fix marks a document mixed_lang and the target is Italian, every
\* hashtag and @-mention of the raw text is in text_norm unchanged (also one that
\* contains a glossary word) and the glossary words outside them are replaced by
\* their translation, a capital first letter kept; when the document is not
\* mixed_lang, text_norm is the raw text.
C16_TagsKeptWordsTranslated ==
    LangFixed =>
        /\ (value.doc.mixed_lang /\ args.target_lang = "it") =>
               /\ TagsOf(value.doc.text_norm) = TagsOf(value.doc.text)
               /\ value.doc.text_norm = StatedNormalized(value.doc.text, 1)
        /\ ~value.doc.mixed_lang => value.doc.text_norm = value.doc.text

\* The fields lang_fix is stated to write, and those sponsored_detector is.
LangFields == {"lang", "lang_conf", "mixed_lang", "slang", "text_norm"}

SponsoredFields == {"sponsored_label", "sponsored_score", "kind"}

\* This step is a direct call of fn on the document.
StageCall(fn) ==
    /\ args # Unset
    /\ args.fn = "stages"
    /\ value'.applied = Append(value.applied, fn)

\* The step leaves every field of the document outside fields as it was.
ChangesOnly(fields) ==
    \A f \in (DOMAIN value.doc) \ fields : value'.doc[f] = value.doc[f]

\* Both functions have been called on the document, in whichever order.
BothApplied ==
    /\ args # Unset
    /\ args.fn = "stages"
    /\ {"lang_fix", "sponsored_detector"} \subseteq SeqRange(value.applied)

\* C20: lang_fix changes only lang, lang_conf, mixed_lang, slang and text_norm,
\* sponsored_detector only sponsored_label, sponsored_score and kind (so neither
\* changes id, url, ts, platform, text, meta or cluster_id), and once both have
\* been called on a document, in either order, its state is the one lang_fix
\* then sponsored_detector give and the one sponsored_detector then lang_fix give.
C20_DisjointFieldsAnyOrder ==
    /\ [][/\ StageCall("lang_fix") => ChangesOnly(LangFields)
          /\ StageCall("sponsored_detector") => ChangesOnly(SponsoredFields)]_vars
    /\ [](BothApplied =>
             /\ value.doc = sponsored_detector(lang_fix(_ingest(args.payload).doc,
                                                        args.target_lang))
             /\ value.doc = lang_fix(sponsored_detector(_ingest(args.payload).doc),
                                     args.target_lang))

\* A document that went through sponsored_detector first and lang_fix second, and
\* came out sponsored and translated.
C20_Witness ==
    /\ args # Unset
    /\ args.fn = "stages"
    /\ value.applied = <<"sponsored_detector", "lang_fix">>
    /\ value.doc.kind = "sponsored"
    /\ value.doc.sponsored_score = 90
    /\ value.doc.text_norm = "Allenamento in collaborazione con BrandX #ad"

\* C13: when run has returned for a batch of n records, docs_total is n, and
\* evidence and annotated_documents each have n entries that carry the ids of the
\* input records in input order.
C13_OneEntryPerDocument ==
    pc = "returned" =>
        /\ result.persona_profile.data_quality.docs_total = Len(documents)
        /\ Len(result.persona_profile.evidence) = Len(documents)
        /\ Len(result.annotated_documents) = Len(documents)
        /\ \A k \in 1..Len(documents) :
               /\ result.persona_profile.evidence[k].id = documents[k].id
               /\ result.annotated_documents[k].id = documents[k].id

\* A returned run on three records, two of which share an id.
C13_Witness ==
    /\ pc = "returned"
    /\ Len(documents) = 3
    /\ documents[1].id = documents[3].id
    /\ documents[1].text # documents[3].text
    /\ Len(result.persona_profile.evidence) = 3
    /\ Len(result.annotated_documents) = 3

\* The key of every document of the batch _cluster_documents was called on.
ClusterKeys == AsList([i \in 1..Len(args.documents) |-> Dominant(args.documents, i)])

ClusterReturned == args # Unset /\ args.fn = "_cluster_documents" /\ value # Unset

\* How many documents of the batch have the key of the document at position i.
KeySize(keys, i) == Cardinality({j \in 1..Len(keys) : keys[j] = keys[i]})

\* The document at position i is a member of a cluster of the returned list that
\* has the given size.
InReturnedCluster(i, size) ==
    \E k \in 1..Len(value.clusters) :
        /\ value.clusters[k].id = value.documents[i].cluster_id
        /\ value.clusters[k].size = size

\* The provisional cluster of the document at position i is in the returned list
\* exactly when it has 5 members or more or covers 1% of the batch or more.
KeptUnlessBoth(keys, i) ==
    InReturnedCluster(i, KeySize(keys, i))
        <=> (KeySize(keys, i) >= 5 \/ KeySize(keys, i) * 100 >= Len(keys))

AllKeptUnlessBoth(keys) == \A i \in 1..Len(keys) : KeptUnlessBoth(keys, i)

\* C11: no cluster of the returned list has fewer than 5 members and a coverage
\* below 1%, and the group of documents that share a key is missing from the list
\* only when it has fewer than 5 members and covers less than 1% of the batch: a
\* group of fewer than 5 that covers 1% or more, or one of 5 or more, is kept.
C11_DiscardedOnlyWhenSmallAndRare ==
    ClusterReturned =>
        /\ \A k \in 1..Len(value.clusters) :
               ~(/\ value.clusters[k].size < 5
                 /\ value.clusters[k].coverage.num * 100 < value.clusters[k].coverage.den)
        /\ AllKeptUnlessBoth(ClusterKeys)

\* A batch of 400 documents: the cluster of 4 covers exactly 1% and is kept, the
\* single document of the third topic is in no cluster.
C11_Witness ==
    /\ ClusterReturned
    /\ Len(args.documents) = 400
    /\ Len(value.clusters) = 2
    /\ value.clusters[2].size = 4
    /\ value.clusters[2].coverage = Frac(4, 400)
    /\ value.documents[396].cluster_id = value.clusters[2].id
    /\ value.documents[400].cluster_id = NoCluster

\* The first token of each document's own normalized-or-raw text that survives the
\* stop-word removal and the minimum length, "vario" when none does.
OwnKeys ==
    AsList([i \in 1..Len(args.documents) |->
               FirstToken(_tokenize(ClusterSource(args.documents[i])))])

\* Documents with the same key have the same fate, and two documents that are in
\* surviving clusters are in the same one exactly when their keys are equal.
SameClusterIffSameKey(keys, docs) ==
    \A i, j \in 1..Len(docs) :
        /\ keys[i] = keys[j] => docs[i].cluster_id = docs[j].cluster_id
        /\ (docs[i].cluster_id # NoCluster /\ docs[j].cluster_id # NoCluster)
               => (docs[i].cluster_id = docs[j].cluster_id <=> keys[i] = keys[j])

\* Six documents that share one key come back as one cluster of size 6 with
\* coverage 1.0.
SixSharingOneKey(keys, returned) ==
    (Len(keys) = 6 /\ \A i \in 1..6 : keys[i] = keys[1])
        => /\ Len(returned) = 1
           /\ returned[1].size = 6
           /\ returned[1].coverage = Frac(6, 6)

\* C18: two documents of a batch are in the same surviving cluster if and only if
\* the first surviving token of their normalized-or-raw text is the same ("vario"
\* when no token survives), and a batch of exactly 6 documents that share one
\* leading token yields exactly one cluster of size 6 with coverage 1.0.
C18_SameClusterIffSameFirstToken ==
    ClusterReturned =>
        /\ SameClusterIffSameKey(OwnKeys, value.documents)
        /\ SixSharingOneKey(OwnKeys, value.clusters)

\* The call of task c gets past the lock in this step: it reads the clock and
\* either returns or sends a request.
PassesLock(c) ==
    /\ callers[c].pc \in {"idle", "waiting"}
    /\ callers'[c].pc \in {"done", "get"}

\* The call sends no request and returns the stored list.
Served(c) ==
    /\ requests' = requests
    /\ callers'[c].pc = "done"
    /\ callers'[c].outcome = "returned"
    /\ callers'[c].models = _model_cache.models

\* The call sends exactly one request.
Fetched(c) == requests' = requests + 1 /\ callers'[c].pc = "get"

\* What the call does is decided by the age of the entry counted from since, the
\* time taken for that of the last successful fetch.
ByAgeSince(c, since) ==
    /\ (_model_cache.set /\ callers'[c].now - since < _models_ttl) => Served(c)
    /\ (_model_cache.set /\ callers'[c].now - since >= _models_ttl) => Fetched(c)
    /\ ~_model_cache.set => Fetched(c)

\* A request is sent only by a call that gets past the lock, one at a time.
RequestsOnlyBehindLock ==
    requests' # requests => \E c \in Callers : PassesLock(c) /\ requests' = requests + 1

\* A call that was awaiting the response raises.
FetchFails(c) ==
    /\ callers[c].pc = "get"
    /\ callers'[c].pc = "done"
    /\ callers'[c].outcome # "returned"

\* At most one request is in flight whatever the interleaving of the callers, a
\* request is sent only under the lock, and a fetch that fails leaves the cache
\* entry as it was.
OneFetchInFlight ==
    /\ [][RequestsOnlyBehindLock]_vars
    /\ [](Cardinality({c \in Callers : callers[c].pc = "get"}) <= 1)
    /\ [][\A c \in Callers : FetchFails(c) => _model_cache' = _model_cache]_vars

\* C17, with the time of the last successful fetch taken as the clock reading of
\* the call that made it, read before its request was sent: a call of list_models
\* that reads the clock less than models_ttl after that time returns the cached
\* list without a request, a call that reads it models_ttl or more after it (or
\* finds no entry) sends exactly one request, at most one request is in flight,
\* and a fetch that fails leaves the cache entry as it was.
C17_CachedUntilTtlOneFetchInFlight ==
    /\ [][\A c \in Callers : PassesLock(c) => ByAgeSince(c, _model_cache.at)]_vars
    /\ OneFetchInFlight

\* C17 as stated, with the time of the last successful fetch taken as the time
\* its response arrived.
C17_CachedSinceResponse ==
    /\ [][\A c \in Callers : PassesLock(c) => ByAgeSince(c, responded)]_vars
    /\ OneFetchInFlight

\* The second fetch, sent once the first entry had expired, has been stored; that
\* entry has expired in turn and a third request is in flight, with the other
\* task queued behind it.
C17_Witness ==
    /\ requests = 3
    /\ _model_cache.set
    /\ _model_cache.at >= _models_ttl
    /\ _model_cache.models = <<"model-2">>
    /\ callers[1].pc = "get"
    /\ callers[2].pc = "waiting"
    /\ _lock.locked

\* C15: _jensen_shannon is symmetric: once both calls have been made on two
\* probability maps (with keys that only one of them has, and with zero entries),
\* jsd(p, q) == jsd(q, p).
C15_JensenShannonSymmetric ==
    (args # Unset /\ args.fn = "_jensen_shannon" /\ value.pq.done /\ value.qp.done)
        => value.pq.jsd = value.qp.jsd

(***************************************************************************)
(* The order of the stages of run                                          *)
(***************************************************************************)
\* lang_fix has written its fields on the document.
LangFixApplied(doc) == doc.lang # None

\* sponsored_detector has written its fields on the document.
ScoringApplied(doc) == doc.sponsored_label # None

\* The enrichment loop is over: clustering is next, or a batch stage has run (the
\* errors of the batch stages come from sorted() and max()).
LoopLeft ==
    \/ pc \in {"cluster", "claims", "stylometry", "evolution", "profile", "blueprint",
               "returned"}
    \/ pc = "raised" /\ exc.origin \in {"sorted", "max"}
    \/ clusters # << >>
    \/ claims # << >>
    \/ global_metrics # Unset
    \/ evolution # Unset
    \/ \E i \in 1..Len(ingested) : ingested[i].cluster_id # NoCluster

\* C12: a document is scored only after lang_fix has run on it; clustering, claim
\* extraction, stylometry and evolution tracking find every document of the batch
\* with the fields of both stages written; claims are built after the clusters,
\* the stylometry after the claims and the evolution after the stylometry.
C12_StagesInFixedOrder ==
    /\ \A i \in 1..Len(ingested) : ScoringApplied(ingested[i]) => LangFixApplied(ingested[i])
    /\ pc = "sponsored_detector" =>
           /\ LangFixApplied(ingested[cursor + 1])
           /\ ~ScoringApplied(ingested[cursor + 1])
    /\ LoopLeft =>
           /\ Len(ingested) = Len(documents)
           /\ \A i \in 1..Len(ingested) :
                  LangFixApplied(ingested[i]) /\ ScoringApplied(ingested[i])
    /\ pc = "cluster" =>
           /\ \A i \in 1..Len(ingested) : ingested[i].cluster_id = NoCluster
           /\ clusters = << >> /\ claims = << >>
           /\ global_metrics = Unset /\ evolution = Unset
    /\ pc = "claims" => claims = << >> /\ global_metrics = Unset /\ evolution = Unset
    /\ pc = "stylometry" => global_metrics = Unset /\ evolution = Unset
    /\ pc = "evolution" => global_metrics # Unset /\ evolution = Unset
    /\ claims # << >> => clusters # << >>
    /\ evolution # Unset => global_metrics # Unset

\* A batch of three documents went through every stage: the documents carry a
\* cluster id, a claim was built, and run returned.
C12_Witness ==
    /\ pc = "returned"
    /\ Len(ingested) = 3
    /\ \A i \in 1..Len(ingested) : ingested[i].cluster_id # NoCluster
    /\ claims # << >>
    /\ C12_StagesInFixedOrder

(***************************************************************************)
(* Two calls of run on the same records                                    *)
(***************************************************************************)
\* The second call of run on the records has ended.
SecondCallEnded == previous # Unset /\ pc \in {"returned", "raised"}

DocHashtags(text) == SeqRange(FindPrefixed(ToLower(text), 1, "#", WordChars))

\* One of the hashtags of the text is an ad hashtag.
HasAdHashtag(text) == DocHashtags(text) \cap _AD_HASHTAGS # {}

\* The contributions of the badge, the discount code or affiliate link and the
\* partnership phrase.
OtherSignalsPct(doc) ==
      (IF _has_paid_partnership_badge(doc.meta) THEN BadgePct ELSE 0)
    + (IF _has_discount_code(ToLower(doc.text)) \/ _has_affiliate_url(ToLower(doc.text))
       THEN DiscountPct ELSE 0)
    + (IF \E keyword \in _PAID_PARTNERSHIP_KEYWORDS : Contains(ToLower(doc.text), keyword)
       THEN PhrasePct ELSE 0)

\* C21: the score sponsored_detector writes holds the 0.6 of the ad hashtag exactly
\* when one of the document's hashtags is an ad hashtag.
C21_AdHashtagOnlyAsHashtag ==
    ScoringApplied(value.doc) =>
        value.doc.sponsored_score =
            Min(100, (IF HasAdHashtag(value.doc.text) THEN AdHashtagPct ELSE 0)
                         + OtherSignalsPct(value.doc))

(***************************************************************************)
(* The claims _build_claims keeps                                          *)
(***************************************************************************)
\* The claim sentences of a document, in lower case.
ClaimKeysOf(doc) ==
    {ToLower(sentence) :
         sentence \in SeqRange(Filter(IsClaimSentence, _split_sentences(doc.text)))}

\* The positions of the documents of a cluster.
MemberIdx(docs, cluster) == {i \in 1..Len(docs) : docs[i].cluster_id = cluster.id}

\* The positions of the documents of a cluster that hold the sentence.
SupportIdx(docs, keys, cluster, key) == {i \in MemberIdx(docs, cluster) : key \in keys[i]}

\* Fewer than 2 supporting documents and under 15% of the documents of the cluster.
BelowSupport(support, size) == support < 2 /\ 100 * support < 15 * size

\* The emitted claims of the cluster's topic that paraphrase the sentence.
ClaimsFor(emitted, cluster, key) ==
    {k \in 1..Len(emitted) :
        /\ emitted[k].topic = LeadingTerm(cluster)
        /\ EndsWith(ToLower(emitted[k].text), " che " \o key)}

\* What C22 asks of one sentence of one cluster.
ClaimFiltered(docs, emitted, cluster, key, support, size) ==
    /\ Cardinality(ClaimsFor(emitted, cluster, key)) = IF BelowSupport(support, size) THEN 0 ELSE 1
    /\ \A k \in ClaimsFor(emitted, cluster, key) :
           /\ support >= 2 \/ 100 * support >= 15 * size
           /\ emitted[k].coverage = RoundRatioPct(support, size)
           /\ emitted[k].confidence = ClaimConfidence(support, size)
           /\ emitted[k].coverage \in 0..100
           /\ emitted[k].confidence \in 0..100

\* The ids of the documents of a cluster that hold the sentence.
SupportIds(docs, keys, cluster, key) ==
    {docs[i].id : i \in SupportIdx(docs, keys, cluster, key)}

\* The same with the supporting documents counted by id when byId, one by one
\* otherwise, and their ids as evidence.
ClaimSupported(docs, keys, emitted, cluster, key, byId) ==
    /\ ClaimFiltered(docs, emitted, cluster, key,
                     IF byId THEN Cardinality(SupportIds(docs, keys, cluster, key))
                     ELSE Cardinality(SupportIdx(docs, keys, cluster, key)),
                     Cardinality(MemberIdx(docs, cluster)))
    /\ \A k \in ClaimsFor(emitted, cluster, key) :
           emitted[k].evidence_ids = SortedIds(SupportIds(docs, keys, cluster, key))

ClusterSentences(docs, keys, cluster) == UNION {keys[i] : i \in MemberIdx(docs, cluster)}

AllClaimsFiltered(docs, keys, returned, emitted, byId) ==
    /\ \A c \in 1..Len(returned) :
           \A key \in ClusterSentences(docs, keys, returned[c]) :
               ClaimSupported(docs, keys, emitted, returned[c], key, byId)
    /\ \A k \in 1..Len(emitted) :
           \E c \in 1..Len(returned) :
               \E key \in ClusterSentences(docs, keys, returned[c]) :
                   k \in ClaimsFor(emitted, returned[c], key)

\* _build_claims has returned.
ClaimsBuilt == args # Unset /\ args.fn = "_build_claims" /\ value # Unset /\ value.called

\* The claim sentences of each document _build_claims was given.
ValueKeys == AsList([i \in 1..Len(value.documents) |-> ClaimKeysOf(value.documents[i])])

\* C22 as stated: a sentence of a cluster, whatever its case, gives one claim
\* unless fewer than 2 documents of the cluster hold it and they are under 15% of
\* the cluster, and then none; a claim has the sorted ids of those documents as
\* evidence, the coverage documents / cluster size and the confidence
\* min(0.9, 0.5 + 0.1 * documents + 0.3 * coverage), both to two decimals and
\* within [0, 1].
C22_SupportCountsDocuments ==
    ClaimsBuilt =>
        AllClaimsFiltered(value.documents, ValueKeys, value.clusters, value.claims, FALSE)

\* C22, amended: the same with the support of a sentence being the number of
\* distinct ids among the documents of the cluster that hold it, so that two
\* documents under one id support it once.
C22_SupportCountsIds ==
    ClaimsBuilt =>
        AllClaimsFiltered(value.documents, ValueKeys, value.clusters, value.claims, TRUE)

\* A cluster of which one sentence became a claim and another, held by one
\* document in seven or more, did not.
C22_Witness ==
    /\ ClaimsBuilt
    /\ \E c \in 1..Len(value.clusters) :
           /\ Cardinality(MemberIdx(value.documents, value.clusters[c])) >= 7
           /\ \E kept, dropped \in ClusterSentences(value.documents, ValueKeys, value.clusters[c]) :
                  /\ ClaimsFor(value.claims, value.clusters[c], kept) # {}
                  /\ ClaimsFor(value.claims, value.clusters[c], dropped) = {}

(***************************************************************************)
(* The EvolutionResult of run                                              *)
(***************************************************************************)
\* The flag the thresholds give a score in hundredths.
FlagOfReported(pct) ==
    IF 10 * pct >= HighMilli THEN "high"
    ELSE IF 10 * pct >= ModerateMilli THEN "moderate" ELSE "low"

\* evolution_tracker has returned to run.
EvolutionReturned == evolution # Unset

\* C23: the evolution_score that is reported, rounded to two decimals, lies in
\* [0, 1], and the flag is "high" iff it is >= 0.65, "moderate" iff it is
\* >= 0.35 and < 0.65, "low" otherwise.
C23_FlagMatchesReportedScore ==
    EvolutionReturned =>
        /\ evolution.evolution_score \in 0..100
        /\ evolution.evolution_flag = FlagOfReported(evolution.evolution_score)

\* The Jensen-Shannon divergence of the probability maps of two windows in
\* thousandths, a window without clustered documents giving the empty map: with
\* p empty m is q / 2, so _kl(p, m) = 0 and _kl(q, m) = sum of q * log2(2) = 1.
JsdOfMaps(past, recent) ==
    IF past.total = 0 /\ recent.total = 0 THEN 0
    ELSE IF past.total = 0 \/ recent.total = 0 THEN 500
    ELSE _jensen_shannon(past, recent)

\* The result with the divergence of the two maps as the jsd term.
EvolutionOfMaps(past, recent) ==
    IF past.total = 0 /\ recent.total = 0
    THEN [evolution_score |-> 0, evolution_flag |-> "low", change_points |-> << >>]
    ELSE EvolutionResult(
             EvolutionScore(JsdOfMaps(past, recent),
                            _mean_abs_z(past.style_metrics, recent.style_metrics)),
             ChangePoints(past, recent))

\* C24: the result is (0.0, "low", no change points) by a shortcut only when
\* neither window has a clustered document; otherwise the jsd term of the score is
\* the Jensen-Shannon divergence of the two probability maps, also when one of
\* the windows is empty.
C24_JsdOfTheTwoMaps ==
    EvolutionReturned =>
        evolution = EvolutionOfMaps(_collect(SplitWindows(ingested).past),
                                    _collect(SplitWindows(ingested).recent))

(***************************************************************************)
(* A batch within one window of 180 days                                   *)
(***************************************************************************)
\* The positions of the documents that have a cluster.
Clustered(docs) == {i \in 1..Len(docs) : docs[i].cluster_id # NoCluster}

\* The clusters that 12% or more of the clustered documents at the positions
\* belong to.
SharedBy(docs, positions) ==
    {c \in ClusterIdsAt(docs, positions) :
        100 * Cardinality({i \in positions : docs[i].cluster_id = c})
            >= EmergingPct * Cardinality(positions)}

\* All timestamps lie within 180 days of the latest and a document is clustered.
OneWindow(docs) == PastWindow(docs) = {} /\ Clustered(docs) # {}

\* past and recent hold each document of docs once, the latest among the recent.
SplitsInTwo(docs, windows) ==
    /\ Len(windows.past) + Len(windows.recent) = Len(docs)
    /\ \A i \in 1..Len(docs) :
           CountOf(docs, docs[i]) = CountOf(windows.past, docs[i])
                                       + CountOf(windows.recent, docs[i])
    /\ \A k \in 1..Len(windows.past) :
           windows.past[k].ts.day < LatestDay(docs) - WindowDays
    /\ \A k \in 1..Len(windows.recent) :
           windows.recent[k].ts.day >= LatestDay(docs) - WindowDays
    /\ docs # << >> =>
           \E k \in 1..Len(windows.recent) : windows.recent[k].ts.day = LatestDay(docs)

\* C25: when every timestamp lies within 180 days of the latest and a document
\* is clustered, evolution_score is 0.0, the flag "low" and change_points lists,
\* once each, the ids of the clusters with 12% or more of the clustered documents
\* of the recent window; in every batch the latest document is in the recent
\* window and every document is in exactly one window.
C25_OneWindowScoresZero ==
    EvolutionReturned =>
        /\ OneWindow(ingested) =>
               /\ evolution.evolution_score = 0
               /\ evolution.evolution_flag = "low"
               /\ SeqRange(evolution.change_points)
                      = {NumStr(c) : c \in SharedBy(ingested, Clustered(ingested))}
               /\ Len(evolution.change_points)
                      = Cardinality(SharedBy(ingested, Clustered(ingested)))
        /\ SplitsInTwo(ingested, SplitWindows(ingested))

\* A batch within one window whose documents belong to two clusters, one of them
\* with less than 12% of the documents.
C25_Witness ==
    /\ EvolutionReturned
    /\ OneWindow(ingested)
    /\ Cardinality(ClusterIdsAt(ingested, Clustered(ingested))) = 2
    /\ Len(evolution.change_points) = 1

(***************************************************************************)
(* topics_distribution                                                     *)
(***************************************************************************)
\* _build_persona_profile has returned to run.
ProfileBuilt == persona_profile # Unset

\* C26: topics_distribution has one entry per cluster of the cluster list, in its
\* order and under its leading term, and when there is at least one cluster the
\* weights as reported sum to 1.
C26_WeightsSumToOne ==
    ProfileBuilt =>
        /\ Len(persona_profile.topics_distribution) = Len(clusters)
        /\ \A k \in 1..Len(clusters) :
               persona_profile.topics_distribution[k].topic = LeadingTerm(clusters[k])
        /\ clusters # << >> =>
               SumSeq(MapSeq(LAMBDA entry : entry.weight,
                             persona_profile.topics_distribution)) = 100

(***************************************************************************)
(* voice_guardrails and tone_labels                                        *)
(***************************************************************************)
\* run has returned its result.
Returned == pc = "returned"

ToneLabels == SeqRange(result.persona_profile.voice_style.tone_labels)

MustGuardrails == SeqRange(result.content_blueprint.voice_guardrails.must)

AvoidGuardrails == SeqRange(result.content_blueprint.voice_guardrails.avoid)

\* C27: the guardrails switch where the tone labels do: "approfondire con esempi"
\* goes with the label "approfondito" and "hook entro 3s" with "diretto" (average
\* sentence length 15), "interrogativi retorici eccessivi" with "coinvolgente" and
\* "claim non verificabili" with its absence (question rate 0.2).
C27_GuardrailsFollowToneLabels ==
    Returned =>
        /\ "approfondire con esempi" \in MustGuardrails <=> "approfondito" \in ToneLabels
        /\ "hook entro 3s" \in MustGuardrails <=> "diretto" \in ToneLabels
        /\ "interrogativi retorici eccessivi" \in AvoidGuardrails
               <=> "coinvolgente" \in ToneLabels
        /\ "claim non verificabili" \in AvoidGuardrails <=> "coinvolgente" \notin ToneLabels

(***************************************************************************)
(* core_values                                                             *)
(***************************************************************************)
\* The claims extracted from the k-th cluster.
OwnClaims(k) == ClusterClaims(clusters[k], ByCluster(ingested, clusters[k].id))

\* The cluster covers 15% of the batch or more, or a claim was extracted from it.
ValueExpected(k) == ~FracLt(clusters[k].coverage, Frac(15, 100)) \/ OwnClaims(k) # << >>

\* The record that fuses the k-th cluster with the claims extracted from it.
OwnValue(k, own) ==
    [value |-> LeadingTerm(clusters[k]),
     confidence |->
         IF own = << >> THEN DefaultConfidencePct
         ELSE RoundRatioPct(SumSeq(MapSeq(LAMBDA claim : claim.confidence, own)),
                            100 * Len(own)),
     coverage |->
         IF own = << >>
         THEN RoundRatioPct(clusters[k].coverage.num, clusters[k].coverage.den)
         ELSE MaxOf(MapSeq(LAMBDA claim : claim.coverage, own)),
     source_ids |->
         SortedIds(UNION {SeqRange(own[j].evidence_ids) : j \in 1..Len(own)})]

\* C28: core_values has a record for a cluster iff the cluster covers 15% of the
\* batch or more or a claim was extracted from it, and the record fuses the
\* claims of that cluster alone: the mean of their confidences (0.6 without
\* claims), the greatest of their coverages (the cluster's without claims) and
\* the union of their evidence ids, which are ids of documents of the cluster.
C28_CoreValuesFuseOwnClaims ==
    ProfileBuilt =>
        persona_profile.core_values =
            MapSeq(LAMBDA k : OwnValue(k, OwnClaims(k)),
                   Filter(ValueExpected, [k \in 1..Len(clusters) |-> k]))

(***************************************************************************)
(* The kind of a document in the result                                    *)
(***************************************************************************)
\* The kinds sponsored_detector assigns.
DetectorKinds == {"sponsored", "uncertain", "organic"}

\* C29: in the result of a run the kind of every entry of annotated_documents and
\* of evidence is "sponsored", "uncertain" or "organic", the one sponsored_detector
\* gave the document for its score, whatever kind the record came with.
C29_KindIsTheDetectorsVerdict ==
    Returned =>
        /\ Len(result.annotated_documents) = Len(documents)
        /\ Len(result.persona_profile.evidence) = Len(documents)
        /\ \A k \in 1..Len(documents) :
               /\ result.annotated_documents[k].kind \in DetectorKinds
               /\ result.annotated_documents[k].kind
                      = SponsoredKind(result.annotated_documents[k].sponsored_score)
               /\ result.persona_profile.evidence[k].kind
                      = result.annotated_documents[k].kind

\* A run on a record that came as "sponsored" and left as "organic".
C29_Witness ==
    /\ Returned
    /\ Len(documents) = 1
    /\ documents[1].kind = "sponsored"
    /\ result.annotated_documents[1].kind = "organic"
    /\ result.persona_profile.evidence[1].kind = "organic"

(***************************************************************************)
(* The minimum-support filter on batches of at most 100 documents          *)
(***************************************************************************)
\* The largest batch in which no cluster can be under 1% of the documents.
MaxUnfiltered == 100

\* No cluster of a batch of 1 to 100 documents meets the condition of the filter.
NothingDiscarded ==
    \A total_docs \in 1..MaxUnfiltered :
        \A size \in 1..total_docs : ~Discarded(size, total_docs)

\* The keys of cluster_map: the first surviving tokens of the documents.
ProvisionalKeys(docs) == {Dominant(docs, i) : i \in 1..Len(docs)}

\* C30: in a run on a non-empty batch of at most 100 documents with distinct ids
\* the filter discards no cluster: there is a cluster for every key, every
\* document has the id of a cluster, the sizes of the clusters sum to the size of
\* the batch, and the blueprint has pillars.
C30_NothingDiscardedUpTo100 ==
    /\ NothingDiscarded
    /\ (Returned /\ documents # << >> /\ Len(documents) <= MaxUnfiltered /\ RawIdsDistinct) =>
           /\ Len(clusters) = Cardinality(ProvisionalKeys(ingested))
           /\ \A i \in 1..Len(ingested) :
                  /\ ingested[i].cluster_id # NoCluster
                  /\ \E k \in 1..Len(clusters) : clusters[k].id = ingested[i].cluster_id
           /\ SumSeq(MapSeq(LAMBDA cluster : cluster.size, clusters)) = Len(ingested)
           /\ result.content_blueprint.pillars # << >>

\* A run on three documents with distinct ids and two clusters, one of a single
\* document.
C30_Witness ==
    /\ Returned
    /\ RawIdsDistinct
    /\ Len(documents) = 3
    /\ Len(clusters) = 2
    /\ Len(result.content_blueprint.pillars) = 2

====
